---- MODULE Spec2Model ----
(***************************************************************************)
(* Turn orchestration of the chatbot AI API: the retrying model client     *)
(* (app/clients/azure_openai.py), the conversation state and its store     *)
(* (app/schemas/state.py, app/services/state.py), the tool dispatcher      *)
(* (app/tools/__init__.py) and the orchestrator                            *)
(* (app/services/orchestrator.py).                                         *)
(*                                                                         *)
(* The service runs on one asyncio event loop: code between two awaits     *)
(* that suspend is one atomic step.  A turn suspends only while it awaits  *)
(* the model call (or the retry sleep inside generate); the store's lock   *)
(* is never contended because no critical section suspends, and the tools  *)
(* are synchronous.  Hence one action per stretch of handle_turn between   *)
(* two suspensions.                                                        *)
(***************************************************************************)
EXTENDS Integers, Sequences, FiniteSets, TLC

VARIABLES
    now,          \* wall clock, in hours
    states,       \* ConversationStateStore._states: chat id -> state or NoState
    pc,           \* per turn: "idle", "llm", "done", "cancelled"
    payload,      \* per turn: the inbound ChatbotMessage
    state,        \* per turn: the snapshot handle_turn works on
    frames,       \* per turn: context_updates of the pending _complete_with_tool_outputs calls
    messages,     \* per turn: the messages the model call in flight carries after the history
    reply,        \* per turn: the AgentReply returned
    obs,          \* per turn: what the turn did (loads, persists, model calls, dispatches)
    conv,         \* per chat id: what the loads of the conversation returned
    nturns,       \* number of turns started
    cfg,          \* AzureOpenAIClient: max_retries, base_delay, max_delay
    attempt,      \* generate: the retry counter
    gpc,          \* generate: "idle", "calling", "sleeping", "returned", "raised", "cancelled"
    glog,         \* generate: calls made and sleeps taken by the generate in progress
    merge_in,     \* merge_context_updates: the update maps it was last called with
    merge_out,    \* merge_context_updates: what that call returned, or that it raised
    tool_in,      \* execute_tool and the dispatch loop: the calls and the state given
    tool_out,     \* execute_tool and the dispatch loop: what they returned or raised
    lock          \* ConversationStateStore._lock: the task that holds it, 0 when free

storeVars  == <<now, states, conv>>
turnVars   == <<pc, payload, state, frames, messages, reply, obs, nturns>>
clientVars == <<cfg, attempt, gpc, glog>>
mergeVars  == <<merge_in, merge_out>>
toolVars   == <<tool_in, tool_out>>
lockVars   == <<lock>>
vars       == <<now, states, pc, payload, state, frames, messages, reply, obs,
                conv, nturns, cfg, attempt, gpc, glog, merge_in, merge_out,
                tool_in, tool_out, lock>>

-----------------------------------------------------------------------------
(* Bounds of the model *)

MaxTime      == 3   \* the clock stops here
MaxStoreTurns == 4  \* turns started in one behaviour of the store
MaxCalls     == 2   \* tool calls in one completion
MaxRounds    == 2   \* tool-output round trips in one turn
SeedLen      == 19  \* history entries of the conversation the store may start with
MaxRetries   == 3   \* largest max_retries configured
MaxOps       == 1   \* mutations a caller makes on one snapshot it holds
MaxLoads     == 2   \* loads a caller of the store makes in one behaviour
MaxUpdates   == 3   \* update maps in one call of merge_context_updates
MaxLockTurns == 2   \* turns started in one behaviour of the lock
MaxHistory   == 21  \* entries of the history append_history is called on

(* Program constants *)

HISTORY_TTL          == 2    \* hours
MaxHistoryMessages   == 20
JitterLow            == 8    \* random.uniform(0.8, 1.2), in tenths
JitterHigh           == 12

Turns   == {1, 2}
ChatIds == {"c1", "c2"}
NoState == [chat_id |-> "<none>"]
DefaultLanguage == "uk"

-----------------------------------------------------------------------------
(* Values: a JSON value is a string or a dict; "" stands for None too,     *)
(* both are falsy in every test the code makes.                            *)

Str(s)  == [kind |-> "str", val |-> s]
Dict(m) == [kind |-> "dict", val |-> m]
EmptyMap == <<>>

IsDict(v) == v.kind = "dict"

Truthy(v) == IF v.kind = "dict" THEN DOMAIN v.val # {} ELSE v.val # ""

\* an update that replaces the map by the new one
DictUpdateReplacing(a, b) == b

\* dict.update(b) on a
DictUpdate(a, b) ==
    IF DOMAIN b = {} THEN a
    ELSE IF DOMAIN a = {} THEN b
    ELSE [k \in DOMAIN a \cup DOMAIN b |-> IF k \in DOMAIN b THEN b[k] ELSE a[k]]

\* a[key] = value
DictSet(a, key, value) ==
    [k \in DOMAIN a \cup {key} |-> IF k = key THEN value ELSE a[k]]

\* dict.setdefault(key, value) on a
DictSetDefault(a, key, value) ==
    IF key \in DOMAIN a THEN a ELSE DictSet(a, key, value)

\* dict.get(key), None as Str("")
DictGet(a, key) == IF key \in DOMAIN a THEN a[key] ELSE Str("")

Max(a, b) == IF a >= b THEN a ELSE b
Min(a, b) == IF a <= b THEN a ELSE b

RECURSIVE Pow2(_)
Pow2(n) == IF n <= 0 THEN 1 ELSE 2 * Pow2(n - 1)

-----------------------------------------------------------------------------
(* ConversationState, app/schemas/state.py *)

NewState(chat_id, t) ==
    [chat_id |-> chat_id, language |-> "", slots |-> EmptyMap,
     metadata |-> EmptyMap, history |-> <<>>, last_updated |-> t]

Touch(st, t) == [st EXCEPT !.last_updated = t]

\* a merge that takes every non-empty inbound language
MergeInboundContextOverwriting(st, context) ==
    LET s1 == IF context.language # ""
              THEN [st EXCEPT !.language = context.language] ELSE st
        s2 == IF DOMAIN context.slots # {}
              THEN [s1 EXCEPT !.slots = DictUpdate(s1.slots, context.slots)] ELSE s1
    IN  IF context.timezone # ""
        THEN [s2 EXCEPT !.metadata =
                 DictSetDefault(s2.metadata, "timezone", Str(context.timezone))]
        ELSE s2

MergeInboundContext(st, context) ==
    LET s1 == IF context.language # "" /\ st.language = ""
              THEN [st EXCEPT !.language = context.language] ELSE st
        s2 == IF DOMAIN context.slots # {}
              THEN [s1 EXCEPT !.slots = DictUpdate(s1.slots, context.slots)] ELSE s1
    IN  IF context.timezone # ""
        THEN [s2 EXCEPT !.metadata =
                 DictSetDefault(s2.metadata, "timezone", Str(context.timezone))]
        ELSE s2

\* the free-form keys of an update map go under metadata
RECURSIVE StoreFreeForm(_, _, _)
StoreFreeForm(metadata, updates, keys) ==
    IF keys = {} THEN metadata
    ELSE LET k == CHOOSE x \in keys : TRUE
         IN  StoreFreeForm(DictSet(metadata, k, updates[k]), updates, keys \ {k})

ApplyUpdates(st, updates) ==
    IF DOMAIN updates = {} THEN st
    ELSE
    LET language == DictGet(updates, "language")
        slots    == DictGet(updates, "slots")
        metadata == DictGet(updates, "metadata")
        s1 == IF Truthy(language) THEN [st EXCEPT !.language = language.val] ELSE st
        s2 == IF IsDict(slots)
              THEN [s1 EXCEPT !.slots = DictUpdate(s1.slots, slots.val)] ELSE s1
        s3 == IF IsDict(metadata)
              THEN [s2 EXCEPT !.metadata = DictUpdate(s2.metadata, metadata.val)] ELSE s2
    IN  [s3 EXCEPT !.metadata =
            StoreFreeForm(s3.metadata, updates,
                          DOMAIN updates \ {"language", "slots", "metadata"})]

\* history[-max_messages:]
LastN(h, n) == IF Len(h) > n THEN SubSeq(h, Len(h) - n + 1, Len(h)) ELSE h

\* append_history without its trim
AppendHistoryUntrimmed(st, role, content, max_messages, t) ==
    IF content = "" THEN st
    ELSE Touch([st EXCEPT !.history =
                   Append(st.history, [role |-> role, content |-> content])], t)

\* append_history trimming at the wrong end: the newest entries dropped
AppendHistoryOldest(st, role, content, max_messages, t) ==
    IF content = "" THEN st
    ELSE LET h == Append(st.history, [role |-> role, content |-> content])
         IN  Touch([st EXCEPT !.history =
                       IF max_messages > 0 /\ Len(h) > max_messages
                       THEN SubSeq(h, 1, max_messages) ELSE h], t)

AppendHistory(st, role, content, max_messages, t) ==
    IF content = "" THEN st
    ELSE LET h == Append(st.history, [role |-> role, content |-> content])
             trimmed == IF max_messages > 0 /\ Len(h) > max_messages
                        THEN LastN(h, max_messages) ELSE h
         IN  Touch([st EXCEPT !.history = trimmed], t)

-----------------------------------------------------------------------------
(* ConversationStateStore, app/services/state.py *)

\* a store that never lets a snapshot expire
ExpiredNever(stored, t) == FALSE

\* a store whose snapshots expire at the age of the time to live already
ExpiredAtLimit(stored, t) == (t - stored.last_updated) >= HISTORY_TTL

Expired(stored, t) == (t - stored.last_updated) > HISTORY_TTL

\* the state load leaves in the store and returns a deep copy of
LoadState(store, chat_id, context, t) ==
    LET found == store[chat_id]
        base  == IF found = NoState \/ Expired(found, t)
                 THEN NewState(chat_id, t) ELSE found
    IN  Touch(MergeInboundContext(base, context), t)

\* the snapshot persist stores: the caller's state, touched
PersistState(st, t) == Touch(st, t)

StoreLoad(store, chat_id, context, t) ==
    [store EXCEPT ![chat_id] = LoadState(store, chat_id, context, t)]

\* a persist that keeps the stored snapshot when its history is the longer one
StorePersistLonger(store, st, t) ==
    IF store[st.chat_id] # NoState
       /\ Len(store[st.chat_id].history) > Len(st.history)
    THEN [store EXCEPT ![st.chat_id] = Touch(@, t)]
    ELSE [store EXCEPT ![st.chat_id] = PersistState(st, t)]

\* a persist that writes the snapshot under every id of the store
StorePersistEverywhere(store, st, t) ==
    [c \in DOMAIN store |-> PersistState(st, t)]

\* a persist that stores nothing
StorePersistNothing(store, st, t) == store

StorePersist(store, st, t) ==
    [store EXCEPT ![st.chat_id] = PersistState(st, t)]

-----------------------------------------------------------------------------
(* AzureOpenAIClient, app/clients/azure_openai.py.  Delays are in whole    *)
(* units of time, a sleep in tenths of a unit (delay times jitter tenths). *)

\* __init__: the retry settings as the constructor leaves them
ClientConfig(max_retries, base_delay, max_delay) ==
    [max_retries |-> max_retries,
     base_delay  |-> base_delay,
     max_delay   |-> IF max_delay # 0 /\ base_delay > max_delay
                     THEN base_delay ELSE max_delay]

ClientConfigs ==
    { ClientConfig(n, b, m) : n \in 0..MaxRetries, b \in {0, 1, 2}, m \in {0, 1, 4} }

ComputeBackoff(c, att, jitter) ==
    IF c.base_delay <= 0 THEN 0
    ELSE LET delay  == c.base_delay * Pow2(att - 1)
             capped == IF c.max_delay # 0 THEN Min(delay, c.max_delay) ELSE delay
         IN  Max(0, capped * jitter)

\* a retry loop that gives up one attempt early
OnAttemptOutcomeEager(c, att, outcome) ==
    IF outcome = "ok" THEN [next |-> "returned", attempt |-> att]
    ELSE IF outcome = "cancel" THEN [next |-> "cancelled", attempt |-> att]
    ELSE IF att + 1 >= c.max_retries THEN [next |-> "raised", attempt |-> att]
    ELSE [next |-> "sleeping", attempt |-> att + 1]

\* a retry loop whose except clause takes a cancellation for a failure
OnAttemptOutcomeSwallowing(c, att, outcome) ==
    IF outcome = "ok" THEN [next |-> "returned", attempt |-> att]
    ELSE IF att >= c.max_retries THEN [next |-> "raised", attempt |-> att]
    ELSE [next |-> "sleeping", attempt |-> att + 1]

\* one pass of the while loop of generate, from the outcome of the awaited
\* create(): what generate does next
OnAttemptOutcome(c, att, outcome) ==
    IF outcome = "ok" THEN [next |-> "returned", attempt |-> att]
    ELSE IF outcome = "cancel" THEN [next |-> "cancelled", attempt |-> att]
    ELSE IF att >= c.max_retries THEN [next |-> "raised", attempt |-> att]
    ELSE [next |-> "sleeping", attempt |-> att + 1]

GenerateStart ==
    /\ gpc \in {"idle", "returned", "raised", "cancelled"}
    /\ gpc' = "calling"
    /\ attempt' = 0
    /\ glog' = [calls |-> 1, sleeps |-> <<>>, last |-> "none"]
    /\ UNCHANGED <<cfg, storeVars, turnVars, mergeVars, toolVars, lockVars>>

AttemptCompletes ==
    /\ gpc = "calling"
    /\ \E outcome \in {"ok", "error", "cancel"}, jitter \in JitterLow..JitterHigh :
          LET r == OnAttemptOutcome(cfg, attempt, outcome)
          IN  /\ gpc' = r.next
              /\ attempt' = r.attempt
              /\ glog' = [glog EXCEPT
                            !.last = outcome,
                            !.sleeps = IF r.next = "sleeping"
                                       THEN Append(@, ComputeBackoff(cfg, r.attempt, jitter))
                                       ELSE @]
    /\ UNCHANGED <<cfg, storeVars, turnVars, mergeVars, toolVars, lockVars>>

\* asyncio.sleep(delay) returns: the loop makes the next attempt
SleepCompletes ==
    /\ gpc = "sleeping"
    /\ gpc' = "calling"
    /\ glog' = [glog EXCEPT !.calls = @ + 1, !.last = "none"]
    /\ UNCHANGED <<cfg, attempt, storeVars, turnVars, mergeVars, toolVars, lockVars>>

\* the task is cancelled while it sleeps before a retry
SleepCancelled ==
    /\ gpc = "sleeping"
    /\ gpc' = "cancelled"
    /\ glog' = [glog EXCEPT !.last = "cancel"]
    /\ UNCHANGED <<cfg, attempt, storeVars, turnVars, mergeVars, toolVars, lockVars>>

-----------------------------------------------------------------------------
(* Tools, app/tools.  A tool call of a completion is                       *)
(* [id, name, arguments, ext]: ext is what the bank API answers to the     *)
(* request the tool makes ("ok", "empty" or "error"), if it makes one.     *)

ToolResult(event, data, context_updates, post_process) ==
    [event |-> event, data |-> data, context_updates |-> context_updates,
     post_process |-> post_process]

TOOL_REGISTRY ==
    {"get_exchange", "get_specific_exchange", "get_balance", "get_specific_balance",
     "get_client_accounts_info", "get_statement", "get_bank_info"}

BANK_TOPICS == {"bank_branches"}

ArgsNone      == ""
ArgsEmpty     == "{}"
ArgsClient    == "{\"client_id\": 7}"
ArgsTopic     == "{\"topic\": \"bank_branches\"}"
ArgsStatement == "{\"accountid\": 1, \"datefrom\": \"2024-01-01\", \"dateinto\": \"2024-01-31\"}"
ArgsList      == "[1]"
ArgsBroken    == "{\"client_id\": "

\* json.loads(arguments) if arguments else {}
JsonLoads(arguments) ==
    CASE arguments = ArgsNone      -> [ok |-> TRUE, value |-> Dict(EmptyMap)]
      [] arguments = ArgsEmpty     -> [ok |-> TRUE, value |-> Dict(EmptyMap)]
      [] arguments = ArgsClient    -> [ok |-> TRUE, value |-> Dict([client_id |-> Str("7")])]
      [] arguments = ArgsTopic     -> [ok |-> TRUE, value |-> Dict([topic |-> Str("bank_branches")])]
      [] arguments = ArgsStatement -> [ok |-> TRUE,
                                       value |-> Dict([accountid |-> Str("1"),
                                                       datefrom  |-> Str("2024-01-01"),
                                                       dateinto  |-> Str("2024-01-31")])]
      [] arguments = ArgsList      -> [ok |-> TRUE, value |-> [kind |-> "list", val |-> <<"1">>]]
      [] OTHER                     -> [ok |-> FALSE, value |-> Str("")]

\* _resolve_client_id: the id given, else the first of the well-known keys
\* the state holds, else None ("")
RECURSIVE ResolveFromState(_, _)
ResolveFromState(st, keys) ==
    IF keys = <<>> THEN ""
    ELSE LET inSlots == DictGet(st.slots, Head(keys))
             stored  == IF Truthy(inSlots) THEN inSlots
                        ELSE DictGet(st.metadata, Head(keys))
         IN  IF stored.kind = "str" /\ stored.val # "" THEN stored.val
             ELSE ResolveFromState(st, Tail(keys))

ResolveClientId(provided, st) ==
    IF provided # Str("")
    THEN (IF provided.kind = "str" THEN provided.val ELSE "")
    ELSE ResolveFromState(st, <<"client_id", "customerid", "customer_id">>)

Raised(error)  == [status |-> "raised", error |-> error]
Returned(r)    == [status |-> "ok", result |-> r]

GetExchange == Returned(ToolResult("function", "get_exchange", EmptyMap, FALSE))

GetSpecificExchange(ext) ==
    IF ext \in {"error", "empty"}
    THEN Returned(ToolResult("function", "get_exchange", EmptyMap, FALSE))
    ELSE Returned(ToolResult("send", "[{\"currency\": \"USD\", \"rate\": 41}]", EmptyMap, TRUE))

GetBalance == Returned(ToolResult("function", "get_balance", EmptyMap, FALSE))

GetSpecificBalance(args, st) ==
    LET found    == ResolveClientId(DictGet(args, "client_id"), st)
        resolved == IF found = "" THEN "0" ELSE found
    IN  Returned(ToolResult("function",
            "get_balance(customerid=" \o resolved
                \o ",mode=0,treatyid=None,IBAN=[],currencyTag=[])",
            EmptyMap, FALSE))

GetClientAccountsInfo(args, ext, st) ==
    LET found    == ResolveClientId(DictGet(args, "client_id"), st)
        resolved == IF found = "" THEN "0" ELSE found
        accounts == IF ext = "empty" THEN "[]"
                    ELSE IF ext = "blank" THEN ""
                    ELSE "[{\"accountid\": 1}]"
    IN  IF ext = "error"
        THEN Returned(ToolResult("send", "Cannot retrieve accounts right now.",
                                 EmptyMap, FALSE))
        ELSE Returned(ToolResult("send", accounts,
                 [slots |-> Dict([accounts |-> Str(accounts), client_id |-> Str(resolved)])],
                 TRUE))

GetStatement(args) ==
    IF DictGet(args, "datefrom") = Str("") \/ DictGet(args, "dateinto") = Str("")
    THEN Raised("TypeError")
    ELSE Returned(ToolResult("function",
            "get_extract(accountid=" \o DictGet(args, "accountid").val
                \o ",DATEFROM=" \o DictGet(args, "datefrom").val
                \o ",DATEINTO=" \o DictGet(args, "dateinto").val \o ")",
            EmptyMap, FALSE))

\* get_bank_info; the topics BANK_INFO knows are taken to be BANK_TOPICS, and
\* topic.lower() on a missing topic raises
GetBankInfo(args) ==
    LET topic == DictGet(args, "topic")
    IN  IF topic = Str("") THEN Raised("AttributeError")
        ELSE IF topic.val \notin BANK_TOPICS
        THEN Returned(ToolResult("send", "I don't have info on that topic.", EmptyMap, FALSE))
        ELSE Returned(ToolResult("send", "<" \o topic.val \o ">", EmptyMap, TRUE))

RunExecutor(name, args, ext, st) ==
    CASE name = "get_exchange"             -> GetExchange
      [] name = "get_specific_exchange"    -> GetSpecificExchange(ext)
      [] name = "get_balance"              -> GetBalance
      [] name = "get_specific_balance"     -> GetSpecificBalance(args, st)
      [] name = "get_client_accounts_info" -> GetClientAccountsInfo(args, ext, st)
      [] name = "get_statement"            -> GetStatement(args)
      [] OTHER                             -> GetBankInfo(args)

\* execute_tool from the executor's return on: the result normalised
Normalised(run) ==
    IF run.status # "ok" THEN run
    ELSE Returned(ToolResult(
             IF run.result.event = "" THEN "send" ELSE run.result.event,
             run.result.data,
             run.result.context_updates,
             run.result.post_process))

\* ran tells whether execute_tool came to call the executor
NotRun(run) == [ran |-> FALSE] @@ run
Ran(run)    == [ran |-> TRUE] @@ run

\* execute_tool from the parsed arguments on
ExecuteParsed(name, parsed, ext, st) ==
    IF ~parsed.ok THEN NotRun(Raised("ValueError"))
    ELSE IF ~IsDict(parsed.value) THEN NotRun(Raised("AttributeError"))
    ELSE Ran(Normalised(RunExecutor(name, parsed.value.val, ext, st)))

\* an execute_tool that parses the arguments before it looks the name up
ExecuteToolParsingFirst(name, arguments, ext, st, language) ==
    IF ~JsonLoads(arguments).ok THEN NotRun(Raised("ValueError"))
    ELSE IF name \notin TOOL_REGISTRY THEN NotRun([status |-> "unknown"])
    ELSE ExecuteParsed(name, JsonLoads(arguments), ext, st)

\* execute_tool: the result, normalised, or the exception raised
ExecuteTool(name, arguments, ext, st, language) ==
    IF name \notin TOOL_REGISTRY THEN NotRun([status |-> "unknown"])
    ELSE ExecuteParsed(name, JsonLoads(arguments), ext, st)

\* a merge in which every key, slots and metadata too, takes the later value whole
RECURSIVE MergeKeysShallow(_, _, _)
MergeKeysShallow(acc, updates, keys) ==
    IF keys = {} THEN acc
    ELSE LET key == CHOOSE k \in keys : TRUE
         IN  MergeKeysShallow([raised |-> FALSE,
                               merged |-> DictSet(acc.merged, key, updates[key])],
                              updates, keys \ {key})

\* merge_context_updates: one update map folded into merged, key by key;
\* raised is set when update() is called on a value that is no dict
RECURSIVE MergeKeys(_, _, _)
MergeKeys(acc, updates, keys) ==
    IF keys = {} \/ acc.raised THEN acc
    ELSE LET key   == CHOOSE k \in keys : TRUE
             value == updates[key]
             m     == acc.merged
             next  ==
                IF key \in {"slots", "metadata"} /\ IsDict(value)
                THEN LET cur == IF key \in DOMAIN m THEN m[key] ELSE Dict(EmptyMap)
                     IN  IF IsDict(cur)
                         THEN [raised |-> FALSE,
                               merged |-> DictSet(m, key, Dict(DictUpdate(cur.val, value.val)))]
                         ELSE [raised |-> TRUE, merged |-> m]
                ELSE [raised |-> FALSE, merged |-> DictSet(m, key, value)]
         IN  MergeKeys(next, updates, keys \ {key})

RECURSIVE MergeFrom(_, _)
MergeFrom(acc, updates_list) ==
    IF updates_list = <<>> \/ acc.raised THEN acc
    ELSE MergeFrom(MergeKeys(acc, Head(updates_list), DOMAIN Head(updates_list)),
                   Tail(updates_list))

Reversed(seq) == [i \in 1..Len(seq) |-> seq[Len(seq) + 1 - i]]

\* a merge that goes through the updates from the last to the first
MergeContextUpdatesBackwards(updates_list) ==
    MergeFrom([raised |-> FALSE, merged |-> EmptyMap], Reversed(updates_list))

MergeContextUpdates(updates_list) ==
    MergeFrom([raised |-> FALSE, merged |-> EmptyMap], updates_list)

-----------------------------------------------------------------------------
(* LLMOrchestrator, app/services/orchestrator.py: the reply builders *)

\* the first sentence of the prompt
SYSTEM_PROMPT == "You are a compliant digital banking assistant serving retail clients in Ukraine."

FallbackEn    == "Sorry, I cannot process this request right now. Please try again in a moment."
FallbackUk    == "Vybachte, narazi ya ne mozhu opratsiuvaty zapyt. Bud laska, sprobuite znovu trokhy piznishe."
UnavailableEn == "The requested tool is unavailable right now."
UnavailableUk == "Zapytanyi instrument zaraz nedostupnyi."

\* language.startswith("en"), on the language tags of the model
StartsWithEn(language) == language \in {"en", "en-US", "en-GB"}

OrDefault(language) == IF language # "" THEN language ELSE DefaultLanguage

AgentReply(event, data, context_updates) ==
    [event |-> event, data |-> data, context_updates |-> context_updates]

\* a fallback that never carries the note of the error
FallbackReplyBare(st, error) ==
    AgentReply("send",
               IF StartsWithEn(OrDefault(st.language)) THEN FallbackEn ELSE FallbackUk,
               EmptyMap)

\* error is the exception's type name, "" when there is none
FallbackReply(st, error) ==
    AgentReply("send",
               IF StartsWithEn(OrDefault(st.language)) THEN FallbackEn ELSE FallbackUk,
               IF error # "" THEN [metadata |-> Dict([last_error |-> Str(error)])]
               ELSE EmptyMap)

UnavailableReply(language) ==
    AgentReply("send",
               IF StartsWithEn(language) THEN UnavailableEn ELSE UnavailableUk,
               EmptyMap)

\* content.strip(), on the contents of the model
Strip(content) ==
    CASE content = "  "        -> ""
      [] content = " Answer. " -> "Answer."
      [] OTHER                 -> content

\* the text taken as the model gave it
ExtractTextRaw(message) == message.content

ExtractText(message) == Strip(message.content)

ToolCallIdentifier(call, idx) ==
    IF call.id # "" THEN call.id ELSE "tool_call_" \o ToString(idx)

BuildAssistantToolCall(call, call_id) ==
    [id |-> call_id, type |-> "function",
     function |-> [name |-> call.name,
                   arguments |-> IF call.arguments = "" THEN "{}" ELSE call.arguments]]

BuildMessages(st) ==
    <<[role |-> "system", content |-> SYSTEM_PROMPT]>> \o st.history

\* the first result whose event is not "send", or NoResult
NoResult == [event |-> "<none>"]

\* a dispatch that takes no result for terminal
FirstFunctionResultNone(results) == NoResult

RECURSIVE FirstFunctionResult(_)
FirstFunctionResult(results) ==
    IF results = <<>> THEN NoResult
    ELSE IF Head(results).event # "send" THEN Head(results)
    ELSE FirstFunctionResult(Tail(results))

\* a reply text made of the first tool output alone
JoinDataFirst(results) ==
    IF results = <<>> THEN "" ELSE Head(results).data

\* "\n\n".join(res.data for res in tool_results if res.data)
RECURSIVE JoinData(_)
JoinData(results) ==
    IF results = <<>> THEN ""
    ELSE LET rest == JoinData(Tail(results))
         IN  IF Head(results).data = "" THEN rest
             ELSE IF rest = "" THEN Head(results).data
             ELSE Head(results).data \o "\n\n" \o rest

\* the indexes (from 1) of the results marked post_process, in call order
PostProcessed(results) ==
    SelectSeq([i \in 1..Len(results) |-> i], LAMBDA i : results[i].post_process)

AssistantToolCalls(records, results) ==
    LET idx == PostProcessed(results)
    IN  [k \in 1..Len(idx) |->
            BuildAssistantToolCall(records[idx[k]],
                                   ToolCallIdentifier(records[idx[k]], idx[k] - 1))]

\* the tool outputs, last call first
PostProcessPayloadsReversed(records, results) ==
    LET idx == PostProcessed(results)
    IN  [k \in 1..Len(idx) |->
            [tool_call_id |-> ToolCallIdentifier(records[idx[Len(idx) + 1 - k]],
                                                 idx[Len(idx) + 1 - k] - 1),
             content      |-> results[idx[Len(idx) + 1 - k]].data]]

PostProcessPayloads(records, results) ==
    LET idx == PostProcessed(results)
    IN  [k \in 1..Len(idx) |->
            [tool_call_id |-> ToolCallIdentifier(records[idx[k]], idx[k] - 1),
             content      |-> results[idx[k]].data]]

\* _handle_tool_calls, after its dispatch loop ran to the end
AfterDispatch(st, results, records) ==
    LET merge    == MergeContextUpdates([i \in 1..Len(results) |-> results[i].context_updates])
        function == FirstFunctionResult(results)
        outputs  == PostProcessPayloads(records, results)
    IN  IF results = <<>>
        THEN [kind |-> "reply", branch |-> "no_tool", state |-> st,
              reply |-> FallbackReply(st, ""), results |-> results, completed |-> TRUE]
        ELSE IF merge.raised
        THEN [kind |-> "raise", error |-> "AttributeError", state |-> st,
              results |-> results, completed |-> TRUE]
        ELSE IF function # NoResult
        THEN [kind |-> "reply", branch |-> "ok", state |-> st,
              reply |-> AgentReply(function.event, function.data, merge.merged),
              results |-> results, completed |-> TRUE]
        ELSE IF outputs # <<>>
        THEN [kind |-> "post", state |-> st,
              assistant_calls |-> AssistantToolCalls(records, results),
              tool_outputs |-> outputs,
              context_updates |-> merge.merged,
              results |-> results, completed |-> TRUE]
        ELSE [kind |-> "reply", branch |-> "ok", state |-> st,
              reply |-> AgentReply("send", JoinData(results), merge.merged),
              results |-> results, completed |-> TRUE]

RECURSIVE DispatchFrom(_, _, _, _, _, _)

\* a dispatch loop that passes over a tool that raised
AfterCallSkipping(calls, i, st, language, results, records, run) ==
    IF run.status = "unknown"
    THEN [kind |-> "reply", branch |-> "unknown_tool", state |-> st,
          reply |-> UnavailableReply(language),
          results |-> results, completed |-> FALSE]
    ELSE IF run.status = "raised"
    THEN DispatchFrom(calls, i + 1, st, language, results, records)
    ELSE DispatchFrom(calls, i + 1,
             IF DOMAIN run.result.context_updates # {}
             THEN ApplyUpdates(st, run.result.context_updates) ELSE st,
             language,
             Append(results, run.result),
             Append(records, calls[i]))

\* a dispatch loop that gives every tool the state it started with
AfterCallStale(calls, i, st, language, results, records, run) ==
    IF run.status = "unknown"
    THEN [kind |-> "reply", branch |-> "unknown_tool", state |-> st,
          reply |-> UnavailableReply(language),
          results |-> results, completed |-> FALSE]
    ELSE IF run.status = "raised"
    THEN [kind |-> "reply", branch |-> "tool_error", state |-> st,
          reply |-> FallbackReply(st, run.error),
          results |-> results, completed |-> FALSE]
    ELSE DispatchFrom(calls, i + 1, st, language,
             Append(results, run.result),
             Append(records, calls[i]))

\* a dispatch loop whose failure replies carry the merged updates of the
\* results gathered before the failing call
AfterCallCarrying(calls, i, st, language, results, records, run) ==
    LET merged == MergeContextUpdates(
                      [k \in 1..Len(results) |-> results[k].context_updates]).merged
    IN  IF run.status = "unknown"
        THEN [kind |-> "reply", branch |-> "unknown_tool", state |-> st,
              reply |-> AgentReply("send", UnavailableReply(language).data, merged),
              results |-> results, completed |-> FALSE]
        ELSE IF run.status = "raised"
        THEN [kind |-> "reply", branch |-> "tool_error", state |-> st,
              reply |-> AgentReply("send", FallbackReply(st, run.error).data,
                                   merged @@ FallbackReply(st, run.error).context_updates),
              results |-> results, completed |-> FALSE]
        ELSE DispatchFrom(calls, i + 1,
                 IF DOMAIN run.result.context_updates # {}
                 THEN ApplyUpdates(st, run.result.context_updates) ELSE st,
                 language,
                 Append(results, run.result),
                 Append(records, calls[i]))

\* one pass of the dispatch loop from the return of execute_tool on
AfterCall(calls, i, st, language, results, records, run) ==
    IF run.status = "unknown"
    THEN [kind |-> "reply", branch |-> "unknown_tool", state |-> st,
          reply |-> UnavailableReply(language),
          results |-> results, completed |-> FALSE]
    ELSE IF run.status = "raised"
    THEN [kind |-> "reply", branch |-> "tool_error", state |-> st,
          reply |-> FallbackReply(st, run.error),
          results |-> results, completed |-> FALSE]
    ELSE DispatchFrom(calls, i + 1,
             IF DOMAIN run.result.context_updates # {}
             THEN ApplyUpdates(st, run.result.context_updates) ELSE st,
             language,
             Append(results, run.result),
             Append(records, calls[i]))

\* the dispatch loop of _handle_tool_calls from call i on; language is the one
\* read when _handle_tool_calls was entered
DispatchFrom(calls, i, st, language, results, records) ==
    IF i > Len(calls) THEN AfterDispatch(st, results, records)
    ELSE IF calls[i].name = ""
    THEN DispatchFrom(calls, i + 1, st, language, results, records)
    ELSE AfterCall(calls, i, st, language, results, records,
                   ExecuteTool(calls[i].name, calls[i].arguments, calls[i].ext,
                               st, language))

HandleToolCalls(tool_calls, st) ==
    DispatchFrom(tool_calls, 1, st, OrDefault(st.language), <<>>, <<>>)

NoDispatch == [results |-> <<>>, completed |-> FALSE]

\* no completion: the model call raised, or has not returned yet
NoCompletion == [choices |-> 0, content |-> "<none>", tool_calls |-> <<>>]

\* the outcome of a model call that raised exc
Failed(exc) == [exc |-> exc, completion |-> NoCompletion] @@ NoDispatch

\* _build_agent_reply
BuildAgentReply(completion, st) ==
    IF completion.choices = 0
    THEN [kind |-> "reply", branch |-> "empty", state |-> st,
          reply |-> FallbackReply(st, "")] @@ NoDispatch
    ELSE IF completion.tool_calls # <<>>
    THEN HandleToolCalls(completion.tool_calls, st)
    ELSE IF ExtractText(completion) = ""
    THEN [kind |-> "reply", branch |-> "empty", state |-> st,
          reply |-> FallbackReply(st, "")] @@ NoDispatch
    ELSE [kind |-> "reply", branch |-> "ok", state |-> st,
          reply |-> AgentReply("send", ExtractText(completion), EmptyMap)] @@ NoDispatch

\* what a _complete_with_tool_outputs frame does with the reply of the
\* _handle_tool_calls it awaited; raised when merge_context_updates raises
WithFrameUpdates(context_updates, r) ==
    IF DOMAIN context_updates # {} /\ DOMAIN r.context_updates # {}
    THEN LET merge == MergeContextUpdates(<<context_updates, r.context_updates>>)
         IN  [raised |-> merge.raised,
              reply  |-> [r EXCEPT !.context_updates = merge.merged]]
    ELSE IF DOMAIN context_updates # {}
    THEN [raised |-> FALSE, reply |-> [r EXCEPT !.context_updates = context_updates]]
    ELSE [raised |-> FALSE, reply |-> r]

\* the reply handed back through the pending frames, innermost (last) first
RECURSIVE Unwind(_, _)
Unwind(r, pending) ==
    IF pending = <<>> THEN [raised |-> FALSE, reply |-> r]
    ELSE LET inner == WithFrameUpdates(pending[Len(pending)], r)
         IN  IF inner.raised THEN inner
             ELSE Unwind(inner.reply, SubSeq(pending, 1, Len(pending) - 1))

\* _complete_with_tool_outputs from the return of the _handle_tool_calls it
\* awaited on
AfterNestedDispatch(out, context_updates) ==
    IF out.kind # "reply" THEN out
    ELSE LET w == WithFrameUpdates(context_updates, out.reply)
         IN  IF w.raised
             THEN [kind |-> "raise", error |-> "AttributeError", state |-> out.state,
                   results |-> out.results, completed |-> out.completed]
             ELSE [out EXCEPT !.reply = w.reply]

\* a _complete_with_tool_outputs that takes the text as it comes, empty or not
CompleteWithToolOutputsUnchecked(completion, st, context_updates) ==
    IF completion.choices = 0
    THEN [kind |-> "reply", branch |-> "empty", state |-> st,
          reply |-> FallbackReply(st, "")] @@ NoDispatch
    ELSE IF completion.tool_calls # <<>>
    THEN AfterNestedDispatch(HandleToolCalls(completion.tool_calls, st), context_updates)
    ELSE [kind |-> "reply", branch |-> "ok", state |-> st,
          reply |-> AgentReply("send", ExtractText(completion), context_updates)] @@ NoDispatch

\* _complete_with_tool_outputs from the completion of its model call on;
\* context_updates are those of this frame
CompleteWithToolOutputs(completion, st, context_updates) ==
    IF completion.choices = 0
    THEN [kind |-> "reply", branch |-> "empty", state |-> st,
          reply |-> FallbackReply(st, "")] @@ NoDispatch
    ELSE IF completion.tool_calls # <<>>
    THEN AfterNestedDispatch(HandleToolCalls(completion.tool_calls, st), context_updates)
    ELSE IF ExtractText(completion) = ""
    THEN [kind |-> "reply", branch |-> "empty", state |-> st,
          reply |-> FallbackReply(st, "")] @@ NoDispatch
    ELSE [kind |-> "reply", branch |-> "ok", state |-> st,
          reply |-> AgentReply("send", ExtractText(completion), context_updates)] @@ NoDispatch

-----------------------------------------------------------------------------
(* LLMOrchestrator.handle_turn *)

\* _render_user_content; the user id and the time of the rendering are left
\* out, the time zone of the timestamp is kept
RenderUserContent(p, st, language) ==
    LET stored  == DictGet(st.metadata, "timezone")
        tz_name == IF Truthy(stored) THEN stored.val ELSE p.context.timezone
        tz_used == IF tz_name # "" THEN tz_name ELSE "UTC"
    IN  "Below is the latest customer input and known context. {chat_id: " \o p.chat_id
            \o ", message_id: " \o p.message_id
            \o ", language: " \o language
            \o ", slots: " \o ToString(st.slots)
            \o ", text: " \o p.text
            \o ", timezone: " \o tz_used \o "}"

UserLanguage(p, st) ==
    IF st.language # "" THEN st.language ELSE OrDefault(p.context.language)

\* a turn that does not record the user's message
AppendUserMessageSkipped(st, p, t) == st

AppendUserMessage(st, p, t) ==
    AppendHistory(st, "user", RenderUserContent(p, st, UserLanguage(p, st)),
                  MaxHistoryMessages, t)

\* a turn that stores the data of every reply, whatever its event
MaybeStoreAssistantReplyAny(r, st, t) ==
    AppendHistory(st, "assistant", r.data, MaxHistoryMessages, t)

MaybeStoreAssistantReply(r, st, t) ==
    IF r.event # "send" \/ r.data = "" THEN st
    ELSE AppendHistory(st, "assistant", r.data, MaxHistoryMessages, t)

\* an end of turn that persists only what the reply adds
EndOfTurnFresh(st, r, t) ==
    MaybeStoreAssistantReply(r, [st EXCEPT !.history = <<>>], t)

\* handle_turn from the reply on, up to persist: the state handed to persist
EndOfTurn(st, r, t) ==
    MaybeStoreAssistantReply(r,
        IF DOMAIN r.context_updates # {} THEN ApplyUpdates(st, r.context_updates) ELSE st,
        t)

\* an except clause that catches BaseException
CaughtByHandlerAll(exc) == TRUE

\* whether the except clause of handle_turn (except Exception) catches it
CaughtByHandler(exc) == exc # "CancelledError"

-----------------------------------------------------------------------------
(* Inputs *)

Contexts ==
    { [language |-> "uk", timezone |-> "",            slots |-> EmptyMap],
      [language |-> "",   timezone |-> "",            slots |-> EmptyMap],
      [language |-> "en", timezone |-> "Europe/Kyiv", slots |-> [client_id |-> Str("7")]] }

Call(id, name, arguments, ext) ==
    [id |-> id, name |-> name, arguments |-> arguments, ext |-> ext]

CallChoices ==
    { Call("?", "get_exchange", ArgsEmpty, "na"),
      Call("?", "get_balance", ArgsNone, "na"),
      Call("?", "get_client_accounts_info", ArgsClient, "ok"),
      Call("",  "get_client_accounts_info", ArgsEmpty, "error"),
      Call("?", "get_weather", ArgsEmpty, "na"),
      Call("?", "get_statement", ArgsBroken, "na"),
      Call("?", "get_bank_info", ArgsEmpty, "na") }

\* the model numbers the calls of a completion; a call may come without an id
Numbered(calls) ==
    [i \in 1..Len(calls) |->
        IF calls[i].id = "?" THEN [calls[i] EXCEPT !.id = "call_" \o ToString(i)]
        ELSE calls[i]]

ToolCallLists ==
    { Numbered(calls) : calls \in UNION { [1..n -> CallChoices] : n \in 1..MaxCalls } }

Completions ==
    { [choices |-> 0, content |-> "", tool_calls |-> <<>>] }
    \cup { [choices |-> 1, content |-> c, tool_calls |-> <<>>] : c \in {"", "  ", " Answer. "} }
    \cup { [choices |-> 1, content |-> "", tool_calls |-> calls] : calls \in ToolCallLists }

StoreContexts ==
    { [language |-> "en", timezone |-> "Europe/Kyiv", slots |-> [client_id |-> Str("7")]] }

ExpiryContexts ==
    StoreContexts \cup { [language |-> "uk", timezone |-> "", slots |-> EmptyMap] }

StoreCompletions ==
    { [choices |-> 1, content |-> " Answer. ", tool_calls |-> <<>>],
      [choices |-> 1, content |-> "",
       tool_calls |-> <<Call("call_1", "get_balance", ArgsNone, "na")>>] }

NoPayload == [chat_id |-> "<none>"]
NoReply   == [event |-> "<none>"]
NoObs     == [before |-> NoState]
NoConv    == [loaded |-> FALSE, prev |-> 0, cur |-> 0, at |-> 0, within |-> FALSE,
              quiet |-> TRUE, serial |-> FALSE, writer |-> 0]

\* a conversation of earlier turns: SeedLen entries, user and assistant in turn
SeedSlots == [client_id |-> Str("5")]

SeedHistory ==
    [i \in 1..SeedLen |->
        IF i % 2 = 1
        THEN [role |-> "user",
              content |-> RenderUserContent(
                  [chat_id |-> "c1", message_id |-> "s" \o ToString(i), text |-> "hello",
                   context |-> [language |-> "uk", timezone |-> "", slots |-> EmptyMap]],
                  [slots |-> SeedSlots, metadata |-> EmptyMap], "uk")]
        ELSE [role |-> "assistant", content |-> "Answer."]]

SeedState ==
    [chat_id |-> "c1", language |-> "uk", slots |-> SeedSlots,
     metadata |-> [timezone |-> Str("Europe/Warsaw")], history |-> SeedHistory,
     last_updated |-> 0]

InitialStores ==
    { [c \in ChatIds |-> NoState],
      [c \in ChatIds |-> IF c = "c1" THEN SeedState ELSE NoState] }

-----------------------------------------------------------------------------
(* Actions of a turn *)

InFlight(u, chat) == pc[u] = "llm" /\ payload[u].chat_id = chat

\* handle_turn up to its first suspension: load, the user message appended,
\* the model call issued
HandleTurnStart(t, chats, contexts, message_ids, limit) ==
    /\ pc[t] = "idle"
    /\ nturns < limit
    /\ \E chat \in chats, context \in contexts, message_id \in message_ids :
          LET p      == [chat_id |-> chat, message_id |-> message_id,
                         text |-> "hello", context |-> context]
              found  == states[chat]
              loaded == LoadState(states, chat, context, now)
              st     == AppendUserMessage(loaded, p, now)
              quiet  == \A u \in Turns \ {t} : ~InFlight(u, chat)
          IN  /\ states' = StoreLoad(states, chat, context, now)
              /\ payload' = [payload EXCEPT ![t] = p]
              /\ state' = [state EXCEPT ![t] = st]
              /\ messages' = [messages EXCEPT ![t] = <<>>]
              /\ obs' = [obs EXCEPT ![t] =
                    [before |-> found, loaded |-> loaded,
                     stale |-> found # NoState /\ now - found.last_updated > HISTORY_TTL,
                     overlap |-> ~quiet,
                     user |-> [role |-> "user",
                               content |-> RenderUserContent(p, loaded, UserLanguage(p, loaded))],
                     llm_calls |-> 1, dispatch_calls |-> 0,
                     results |-> <<>>, completed |-> FALSE,
                     branch |-> "", exc |-> "", loads |-> 1, persists |-> 0,
                     completion |-> NoCompletion]]
              /\ conv' = [conv EXCEPT ![chat] =
                    [loaded |-> TRUE, prev |-> conv[chat].cur,
                     cur |-> Len(loaded.history), at |-> now,
                     within |-> conv[chat].loaded /\ now - conv[chat].at <= HISTORY_TTL,
                     quiet |-> quiet, serial |-> conv[chat].quiet /\ quiet,
                     writer |-> t]]
    /\ pc' = [pc EXCEPT ![t] = "llm"]
    /\ frames' = [frames EXCEPT ![t] = <<>>]
    /\ nturns' = nturns + 1
    /\ UNCHANGED <<now, reply, clientVars, mergeVars, toolVars, lockVars>>

\* lines 77-81 of handle_turn: the updates applied, the reply stored, persist
Finish(t, st, r, branch, out) ==
    LET final == EndOfTurn(st, r, now)
        chat  == payload[t].chat_id
    IN  /\ states' = StorePersist(states, final, now)
        /\ state' = [state EXCEPT ![t] = Touch(final, now)]
        /\ reply' = [reply EXCEPT ![t] = r]
        /\ pc' = [pc EXCEPT ![t] = "done"]
        /\ conv' = [conv EXCEPT ![chat].writer = t]
        /\ obs' = [obs EXCEPT ![t].branch = branch,
                              ![t].persists = @ + 1,
                              ![t].exc = out.exc,
                              ![t].completion = out.completion,
                              ![t].results = IF out.completed \/ out.results # <<>>
                                             THEN out.results ELSE @,
                              ![t].completed = out.completed,
                              ![t].dispatch_calls = IF out.completed \/ out.results # <<>>
                                                    THEN obs[t].llm_calls ELSE @]
        /\ UNCHANGED <<frames, messages>>

\* the message list generate is awaited with: _build_messages, and after a
\* dispatch the assistant message and the tool messages
ModelCallMessages(t) == BuildMessages(state[t]) \o messages[t]

\* what the code awaiting the model call makes of the completion: the reply
\* builder of handle_turn, or that of the innermost pending
\* _complete_with_tool_outputs
Outcome(t, completion) ==
    [exc |-> "", completion |-> completion] @@
    IF frames[t] = <<>>
    THEN BuildAgentReply(completion, state[t])
    ELSE CompleteWithToolOutputs(completion, state[t], frames[t][Len(frames[t])])

\* the frames the reply is handed back through
Pending(t) ==
    IF frames[t] = <<>> THEN <<>> ELSE SubSeq(frames[t], 1, Len(frames[t]) - 1)

\* the turn goes on from the outcome: the next model call is issued with the
\* tool outputs, or the turn finishes with the reply or with the fallback
Continue(t, out) ==
    CASE out.kind = "post" ->
           /\ Len(frames[t]) < MaxRounds
           /\ frames' = [frames EXCEPT ![t] = Append(@, out.context_updates)]
           /\ state' = [state EXCEPT ![t] = out.state]
           /\ messages' = [messages EXCEPT ![t] =
                  <<[role |-> "assistant", content |-> "",
                     tool_calls |-> out.assistant_calls]>>
                    \o [k \in 1..Len(out.tool_outputs) |->
                          [role |-> "tool",
                           tool_call_id |-> out.tool_outputs[k].tool_call_id,
                           content |-> out.tool_outputs[k].content]]]
           /\ obs' = [obs EXCEPT ![t].llm_calls = @ + 1,
                                 ![t].dispatch_calls = obs[t].llm_calls,
                                 ![t].results = out.results,
                                 ![t].completion = out.completion,
                                 ![t].completed = TRUE]
           /\ UNCHANGED <<states, conv, reply, pc>>
      [] out.kind = "reply" ->
           LET w == Unwind(out.reply, Pending(t))
           IN  IF w.raised
               THEN Finish(t, out.state, FallbackReply(out.state, "AttributeError"),
                           "merge_error", out)
               ELSE Finish(t, out.state, w.reply, out.branch, out)
      [] OTHER ->
           Finish(t, out.state, FallbackReply(out.state, out.error),
                  "merge_error", out)

\* the awaited generate returns a completion
ModelCallReturns(t, completions) ==
    /\ pc[t] = "llm"
    /\ \E completion \in completions : Continue(t, Outcome(t, completion))
    /\ UNCHANGED <<now, payload, nturns, clientVars, mergeVars, toolVars, lockVars>>

\* the awaited generate returns a completion, at any depth of the recursion
\* of _handle_tool_calls and _complete_with_tool_outputs.  The code sets no
\* limit to that depth; the frames beyond MaxRounds are kept folded into the
\* topmost one (their context updates merged in the order they are merged on
\* the way back), and the count of model calls stops at MaxRounds + 2.
ModelCallReturnsDeep(t, completions) ==
    /\ pc[t] = "llm"
    /\ \E completion \in completions :
          LET out == Outcome(t, completion)
          IN  IF out.kind = "post" /\ Len(frames[t]) >= MaxRounds
              THEN /\ frames' = [frames EXCEPT ![t][Len(frames[t])] =
                         MergeContextUpdates(<<@, out.context_updates>>).merged]
                   /\ state' = [state EXCEPT ![t] = out.state]
                   /\ messages' = [messages EXCEPT ![t] =
                          <<[role |-> "assistant", content |-> "",
                             tool_calls |-> out.assistant_calls]>>
                            \o [k \in 1..Len(out.tool_outputs) |->
                                  [role |-> "tool",
                                   tool_call_id |-> out.tool_outputs[k].tool_call_id,
                                   content |-> out.tool_outputs[k].content]]]
                   /\ obs' = [obs EXCEPT ![t].llm_calls =
                                            IF @ > MaxRounds + 1 THEN @ ELSE @ + 1,
                                         ![t].dispatch_calls = obs[t].llm_calls,
                                         ![t].results = out.results,
                                         ![t].completion = out.completion,
                                         ![t].completed = TRUE]
                   /\ UNCHANGED <<states, conv, reply, pc>>
              ELSE Continue(t, out)
    /\ UNCHANGED <<now, payload, nturns, clientVars, mergeVars, toolVars, lockVars>>

\* the awaited generate raises: the model call failed after its retries, or
\* the task was cancelled while it waited
ModelCallRaises(t) ==
    /\ pc[t] = "llm"
    /\ \E exc \in {"APIConnectionError", "CancelledError"} :
          IF CaughtByHandler(exc)
          THEN LET w == Unwind(FallbackReply(state[t], exc), Pending(t))
               IN  Finish(t, state[t],
                          IF w.raised THEN FallbackReply(state[t], "AttributeError")
                          ELSE w.reply,
                          "llm_error", Failed(exc))
          ELSE /\ pc' = [pc EXCEPT ![t] = "cancelled"]
               /\ obs' = [obs EXCEPT ![t].exc = exc]
               /\ UNCHANGED <<states, state, reply, conv, frames, messages>>
    /\ UNCHANGED <<now, payload, nturns, clientVars, mergeVars, toolVars, lockVars>>

\* the reply is returned (or the cancellation has propagated): the task ends
TurnEnds(t) ==
    /\ pc[t] \in {"done", "cancelled"}
    /\ pc' = [pc EXCEPT ![t] = "idle"]
    /\ payload' = [payload EXCEPT ![t] = NoPayload]
    /\ state' = [state EXCEPT ![t] = NoState]
    /\ frames' = [frames EXCEPT ![t] = <<>>]
    /\ messages' = [messages EXCEPT ![t] = <<>>]
    /\ reply' = [reply EXCEPT ![t] = NoReply]
    /\ obs' = [obs EXCEPT ![t] = NoObs]
    /\ UNCHANGED <<now, states, conv, nturns, clientVars, mergeVars, toolVars, lockVars>>

Tick(hours) ==
    /\ now + hours <= MaxTime
    /\ now' = now + hours
    /\ UNCHANGED <<states, conv, turnVars, clientVars, mergeVars, toolVars, lockVars>>

-----------------------------------------------------------------------------
(* The lock of the store.  handle_turn step by step: a task t goes "idle",   *)
(* "load_wait" (at the async with of load), "load_cs" (in it), "llm" (the    *)
(* model call awaited), "sleep" (the sleep before a retry), "tool" (the      *)
(* dispatch loop), "persist_wait", "persist_cs", then "done" or "cancelled". *)
(* lock is the task that holds the store's asyncio.Lock, 0 when it is free   *)
(* or not yet created.  The steps of a critical section interleave with the  *)
(* other task's steps, which allows every schedule of the event loop.        *)

\* a lock that lets every task in
CanAcquireAlways(l) == TRUE

\* asyncio.Lock.acquire returns when the lock is not held
CanAcquire(l) == l = 0

CriticalSections == {"load_cs", "persist_cs"}

\* handle_turn is called: load is awaited and comes to its async with
LockedTurnStart(t, chats, contexts, limit) ==
    /\ pc[t] = "idle"
    /\ nturns < limit
    /\ \E chat \in chats, context \in contexts :
          payload' = [payload EXCEPT ![t] =
                        [chat_id |-> chat, message_id |-> "", text |-> "hello",
                         context |-> context]]
    /\ pc' = [pc EXCEPT ![t] = "load_wait"]
    /\ nturns' = nturns + 1
    /\ UNCHANGED <<state, frames, messages, reply, obs, storeVars, clientVars,
                   mergeVars, toolVars, lockVars>>

\* async with self._ensure_lock(): the lock is taken
LockAcquired(t) ==
    /\ pc[t] \in {"load_wait", "persist_wait"}
    /\ CanAcquire(lock)
    /\ lock' = t
    /\ pc' = [pc EXCEPT ![t] = IF pc[t] = "load_wait" THEN "load_cs" ELSE "persist_cs"]
    /\ UNCHANGED <<payload, state, frames, messages, reply, obs, nturns, storeVars,
                   clientVars, mergeVars, toolVars>>

\* the body of load, the lock released on the way out, and handle_turn up to
\* the model call
LoadSection(t) ==
    /\ pc[t] = "load_cs"
    /\ LET p      == payload[t]
           loaded == LoadState(states, p.chat_id, p.context, now)
       IN  /\ states' = StoreLoad(states, p.chat_id, p.context, now)
           /\ state' = [state EXCEPT ![t] = AppendUserMessage(loaded, p, now)]
           /\ obs' = [obs EXCEPT ![t] =
                 [before |-> states[p.chat_id], loaded |-> loaded, exc |-> "",
                  completion |-> NoCompletion, retries |-> 0]]
    /\ lock' = 0
    /\ pc' = [pc EXCEPT ![t] = "llm"]
    /\ frames' = [frames EXCEPT ![t] = <<>>]
    /\ messages' = [messages EXCEPT ![t] = <<>>]
    /\ UNCHANGED <<now, conv, payload, reply, nturns, clientVars, mergeVars, toolVars>>

\* the reply is built: the updates applied and the reply stored in the
\* history, persist awaited; or the model is called again with tool outputs
Proceed(t, out) ==
    IF out.kind = "post"
    THEN /\ Len(frames[t]) < MaxRounds
         /\ frames' = [frames EXCEPT ![t] = Append(@, out.context_updates)]
         /\ state' = [state EXCEPT ![t] = out.state]
         /\ messages' = [messages EXCEPT ![t] =
                <<[role |-> "assistant", content |-> "",
                   tool_calls |-> out.assistant_calls]>>
                  \o [k \in 1..Len(out.tool_outputs) |->
                        [role |-> "tool",
                         tool_call_id |-> out.tool_outputs[k].tool_call_id,
                         content |-> out.tool_outputs[k].content]]]
         /\ obs' = [obs EXCEPT ![t].retries = 0]
         /\ pc' = [pc EXCEPT ![t] = "llm"]
         /\ UNCHANGED reply
    ELSE LET w == IF out.kind = "reply"
                  THEN Unwind(out.reply, Pending(t))
                  ELSE [raised |-> TRUE, reply |-> NoReply]
             r == IF w.raised THEN FallbackReply(out.state, "AttributeError")
                  ELSE w.reply
         IN  /\ reply' = [reply EXCEPT ![t] = r]
             /\ state' = [state EXCEPT ![t] = EndOfTurn(out.state, r, now)]
             /\ pc' = [pc EXCEPT ![t] = "persist_wait"]
             /\ obs' = [obs EXCEPT ![t].completion = out.completion]
             /\ UNCHANGED <<frames, messages>>

\* the awaited create() fails and generate sleeps before it tries again
LockedModelRetries(t) ==
    /\ pc[t] = "llm"
    /\ obs[t].retries < cfg.max_retries
    /\ obs' = [obs EXCEPT ![t].retries = @ + 1]
    /\ pc' = [pc EXCEPT ![t] = "sleep"]
    /\ UNCHANGED <<payload, state, frames, messages, reply, nturns, storeVars,
                   clientVars, mergeVars, toolVars, lockVars>>

\* asyncio.sleep returns
LockedSleepEnds(t) ==
    /\ pc[t] = "sleep"
    /\ pc' = [pc EXCEPT ![t] = "llm"]
    /\ UNCHANGED <<payload, state, frames, messages, reply, obs, nturns, storeVars,
                   clientVars, mergeVars, toolVars, lockVars>>

\* generate returns: a completion with tool calls starts the dispatch loop,
\* any other one gives the reply
LockedModelReturns(t, completions) ==
    /\ pc[t] = "llm"
    /\ \E completion \in completions :
          IF completion.choices > 0 /\ completion.tool_calls # <<>>
          THEN /\ pc' = [pc EXCEPT ![t] = "tool"]
               /\ obs' = [obs EXCEPT ![t].completion = completion]
               /\ UNCHANGED <<state, frames, messages, reply>>
          ELSE Proceed(t, Outcome(t, completion))
    /\ UNCHANGED <<payload, nturns, storeVars, clientVars, mergeVars, toolVars, lockVars>>

\* the dispatch loop is through
LockedToolsReturn(t) ==
    /\ pc[t] = "tool"
    /\ Proceed(t, Outcome(t, obs[t].completion))
    /\ UNCHANGED <<payload, nturns, storeVars, clientVars, mergeVars, toolVars, lockVars>>

\* generate raises after its retries, or the task is cancelled while it
\* waits for the model or sleeps
LockedModelRaises(t) ==
    /\ pc[t] \in {"llm", "sleep"}
    /\ \E exc \in {"APIConnectionError", "CancelledError"} :
          IF CaughtByHandler(exc)
          THEN /\ pc[t] = "llm"
               /\ Proceed(t, [kind |-> "reply", state |-> state[t],
                              reply |-> FallbackReply(state[t], exc),
                              completion |-> NoCompletion])
          ELSE /\ pc' = [pc EXCEPT ![t] = "cancelled"]
               /\ obs' = [obs EXCEPT ![t].exc = exc]
               /\ UNCHANGED <<state, reply, frames, messages>>
    /\ UNCHANGED <<payload, nturns, storeVars, clientVars, mergeVars, toolVars, lockVars>>

\* the body of persist, the lock released on the way out; the reply returned
PersistSection(t) ==
    /\ pc[t] = "persist_cs"
    /\ states' = StorePersist(states, state[t], now)
    /\ state' = [state EXCEPT ![t] = Touch(@, now)]
    /\ lock' = 0
    /\ pc' = [pc EXCEPT ![t] = "done"]
    /\ UNCHANGED <<now, conv, payload, frames, messages, reply, obs, nturns,
                   clientVars, mergeVars, toolVars>>

-----------------------------------------------------------------------------
(* LLMOrchestrator.answer_direct: one model call without tools, no state of  *)
(* a conversation.  The task t that runs it goes "idle", "direct", then      *)
(* "done" or "cancelled".                                                    *)

\* a language code that is always the default one
DirectLanguageDefault(language) == DefaultLanguage

\* language_code = language or self._default_language
DirectLanguage(language) == OrDefault(language)

\* the except clause of answer_direct: the fallback text picked with an
\* ephemeral state, event and data only
DirectFallback(language, error) ==
    LET fallback_reply ==
            FallbackReply([NewState("direct", 0) EXCEPT
                              !.language = DirectLanguage(language)], error)
    IN  [event |-> fallback_reply.event, data |-> fallback_reply.data]

\* answer_direct from the completion of its model call on
AnswerDirect(completion, language) ==
    IF completion.choices = 0 THEN DirectFallback(language, "ValueError")
    ELSE IF ExtractText(completion) = "" THEN DirectFallback(language, "ValueError")
    ELSE [event |-> "send", data |-> ExtractText(completion)]

DirectLanguages == {"", "uk", "en", "en-US"}

DirectCompletions ==
    { [choices |-> 0, content |-> "", tool_calls |-> <<>>] }
    \cup { [choices |-> 1, content |-> c, tool_calls |-> <<>>] : c \in {"", "  ", " Answer. "} }
    \cup { [choices |-> 1, content |-> "",
            tool_calls |-> <<Call("call_1", "get_client_accounts_info", ArgsClient, "ok")>>] }

\* answer_direct up to its suspension: the two messages built, generate awaited
AnswerDirectStart(t, languages) ==
    /\ pc[t] = "idle"
    /\ \E language \in languages :
          /\ payload' = [payload EXCEPT ![t] =
                [chat_id |-> "direct", question |-> "hello", language |-> language]]
          /\ messages' = [messages EXCEPT ![t] =
                <<[role |-> "system", content |-> SYSTEM_PROMPT],
                  [role |-> "user", content |-> "hello"]>>]
    /\ pc' = [pc EXCEPT ![t] = "direct"]
    /\ obs' = [obs EXCEPT ![t] =
          [before |-> NoState, exc |-> "", completion |-> NoCompletion, llm_calls |-> 1]]
    /\ UNCHANGED <<now, states, conv, state, frames, reply, nturns,
                   clientVars, mergeVars, toolVars, lockVars>>

\* the awaited generate returns a completion
DirectReturns(t, completions) ==
    /\ pc[t] = "direct"
    /\ \E completion \in completions :
          /\ reply' = [reply EXCEPT ![t] = AnswerDirect(completion, payload[t].language)]
          /\ obs' = [obs EXCEPT ![t].completion = completion]
    /\ pc' = [pc EXCEPT ![t] = "done"]
    /\ UNCHANGED <<now, states, conv, payload, state, frames, messages, nturns,
                   clientVars, mergeVars, toolVars, lockVars>>

\* the awaited generate raises, or the task is cancelled while it waits
DirectRaises(t) ==
    /\ pc[t] = "direct"
    /\ \E exc \in {"APIConnectionError", "CancelledError"} :
          /\ obs' = [obs EXCEPT ![t].exc = exc]
          /\ IF CaughtByHandler(exc)
             THEN /\ reply' = [reply EXCEPT ![t] = DirectFallback(payload[t].language, exc)]
                  /\ pc' = [pc EXCEPT ![t] = "done"]
             ELSE /\ pc' = [pc EXCEPT ![t] = "cancelled"]
                  /\ UNCHANGED reply
    /\ UNCHANGED <<now, states, conv, payload, state, frames, messages, nturns,
                   clientVars, mergeVars, toolVars, lockVars>>

-----------------------------------------------------------------------------
(* A caller of the store: it loads a snapshot, changes it the way handle_turn  *)
(* and the tools do (apply_updates, append_history), and persists it or lets *)
(* it go.  obs records the last operation, the snapshot and the stored state *)
(* before it, and whether the snapshot held is the store's own object.       *)

\* a clone that hands out the object itself
CloneShared(st) == [obj |-> st, shared |-> TRUE]

\* clone: a deep copy, an object that shares nothing with the one copied
Clone(st) == [obj |-> st, shared |-> FALSE]

UpdateChoices ==
    { [language |-> Str("en")],
      [slots |-> Dict([accounts |-> Str("[]")])],
      [slots |-> Dict([client_id |-> Str("9")]), language |-> Str("")],
      [metadata |-> Dict([timezone |-> Str("UTC")])],
      [note |-> Str("vip"), slots |-> Str("")] }

CallerLoads(t, chats, contexts) ==
    /\ pc[t] = "idle"
    /\ nturns < MaxLoads
    /\ \E chat \in chats, context \in contexts :
          LET found  == states[chat]
              copy   == Clone(LoadState(states, chat, context, now))
          IN  /\ states' = StoreLoad(states, chat, context, now)
              /\ state' = [state EXCEPT ![t] = copy.obj]
              /\ payload' = [payload EXCEPT ![t] =
                    [chat_id |-> chat, message_id |-> "", text |-> "hello",
                     context |-> context]]
              /\ obs' = [obs EXCEPT ![t] =
                    [before |-> found, loaded |-> copy.obj,
                     stale |-> found # NoState /\ now - found.last_updated > HISTORY_TTL,
                     op |-> "load", via |-> "load", arg |-> EmptyMap,
                     prev |-> found, stored |-> found,
                     shared |-> copy.shared, nops |-> 0]]
    /\ pc' = [pc EXCEPT ![t] = "held"]
    /\ nturns' = nturns + 1
    /\ UNCHANGED <<now, conv, frames, messages, reply, clientVars, mergeVars, toolVars, lockVars>>

\* a change of the snapshot held reaches the store only if the two are one object
Mutated(t, new, op, arg) ==
    /\ state' = [state EXCEPT ![t] = new]
    /\ states' = IF obs[t].shared
                 THEN [states EXCEPT ![payload[t].chat_id] = new] ELSE states
    /\ obs' = [obs EXCEPT ![t].op = op, ![t].arg = arg,
                          ![t].prev = state[t],
                          ![t].stored = states[payload[t].chat_id],
                          ![t].nops = @ + 1]
    /\ UNCHANGED <<now, conv, pc, payload, frames, messages, reply, nturns,
                   clientVars, mergeVars, toolVars, lockVars>>

CallerAppliesUpdates(t) ==
    /\ pc[t] = "held"
    /\ obs[t].nops < MaxOps
    /\ \E updates \in UpdateChoices :
          Mutated(t, ApplyUpdates(state[t], updates), "apply_updates", updates)

CallerAppendsHistory(t) ==
    /\ pc[t] = "held"
    /\ obs[t].nops < MaxOps
    /\ Mutated(t, AppendHistory(state[t], "assistant", "Answer.", MaxHistoryMessages, now),
               "append_history", EmptyMap)

\* persist: the caller's object is touched, a clone of it stored
CallerPersists(t) ==
    /\ pc[t] = "held"
    /\ obs[t].via = "load"
    /\ LET copy == Clone(PersistState(state[t], now))
       IN  /\ states' = StorePersist(states, state[t], now)
           /\ state' = [state EXCEPT ![t] = Touch(state[t], now)]
           /\ obs' = [obs EXCEPT ![t].op = "persist", ![t].via = "persist",
                                 ![t].arg = EmptyMap,
                                 ![t].prev = state[t],
                                 ![t].stored = states[payload[t].chat_id],
                                 ![t].shared = copy.shared, ![t].nops = 0]
    /\ UNCHANGED <<now, conv, pc, payload, frames, messages, reply, nturns,
                   clientVars, mergeVars, toolVars, lockVars>>

\* the caller lets the snapshot go
CallerDrops(t) ==
    /\ pc[t] = "held"
    /\ pc' = [pc EXCEPT ![t] = "idle"]
    /\ payload' = [payload EXCEPT ![t] = NoPayload]
    /\ state' = [state EXCEPT ![t] = NoState]
    /\ obs' = [obs EXCEPT ![t] = NoObs]
    /\ UNCHANGED <<now, states, conv, frames, messages, reply, nturns,
                   clientVars, mergeVars, toolVars, lockVars>>

-----------------------------------------------------------------------------
(* Specifications *)

IdleClient ==
    /\ attempt = 0
    /\ gpc = "idle"
    /\ glog = [calls |-> 0, sleeps |-> <<>>, last |-> "none"]

NoMerge == [done |-> FALSE]

NoTool == [done |-> FALSE]

IdleTool ==
    /\ tool_in = [calls |-> <<>>, state |-> NoState]
    /\ tool_out = NoTool

IdleLock == lock = 0

IdleMerge ==
    /\ merge_in = <<>>
    /\ merge_out = NoMerge

IdleTurns ==
    /\ pc = [t \in Turns |-> "idle"]
    /\ payload = [t \in Turns |-> NoPayload]
    /\ state = [t \in Turns |-> NoState]
    /\ frames = [t \in Turns |-> <<>>]
    /\ messages = [t \in Turns |-> <<>>]
    /\ reply = [t \in Turns |-> NoReply]
    /\ obs = [t \in Turns |-> NoObs]
    /\ conv = [c \in ChatIds |-> NoConv]
    /\ nturns = 0
    /\ now = 0

\* the reply logic: one turn on a store that is empty or holds a conversation,
\* every completion of the model
Init ==
    /\ IdleTurns
    /\ states \in InitialStores
    /\ cfg = ClientConfig(2, 1, 8)
    /\ IdleClient
    /\ IdleMerge
    /\ IdleTool
    /\ IdleLock

Next ==
    \/ HandleTurnStart(1, {"c1"}, Contexts, {"m1"}, 1)
    \/ ModelCallReturns(1, Completions)
    \/ ModelCallRaises(1)
    \/ TurnEnds(1)

Spec == Init /\ [][Next]_vars

\* the store: concurrent turns over time, the model answering with a text or
\* with one call of a tool
InitStore ==
    /\ IdleTurns
    /\ states = [c \in ChatIds |-> NoState]
    /\ cfg = ClientConfig(2, 1, 8)
    /\ IdleClient
    /\ IdleMerge
    /\ IdleTool
    /\ IdleLock

NextStore ==
    \/ \E t \in Turns : HandleTurnStart(t, {"c1"}, StoreContexts, {""}, MaxStoreTurns)
    \/ \E t \in Turns : ModelCallReturns(t, StoreCompletions)
    \/ \E t \in Turns : ModelCallRaises(t)
    \/ \E t \in Turns : TurnEnds(t)
    \/ Tick(HISTORY_TTL + 1)

SpecStore == InitStore /\ [][NextStore]_vars

\* expiry: turns of one conversation one after the other, the clock
\* advancing hour by hour between and during them
NextExpiry ==
    \/ HandleTurnStart(1, {"c1"}, ExpiryContexts, {""}, MaxStoreTurns)
    \/ ModelCallReturns(1, StoreCompletions)
    \/ ModelCallRaises(1)
    \/ TurnEnds(1)
    \/ Tick(1)

SpecExpiry == InitStore /\ [][NextExpiry]_vars

\* the store and the state's methods under a caller, the clock jumping
\* past the time to live
NextCaller ==
    \/ CallerLoads(1, {"c1"}, Contexts)
    \/ CallerAppliesUpdates(1)
    \/ CallerAppendsHistory(1)
    \/ CallerPersists(1)
    \/ CallerDrops(1)
    \/ Tick(HISTORY_TTL + 1)

SpecCaller == InitStore /\ [][NextCaller]_vars

\* answer_direct calls (task 2) beside one turn of a conversation (task 1)
NextDirect ==
    \/ HandleTurnStart(1, {"c1"}, StoreContexts, {""}, 1)
    \/ ModelCallReturns(1, StoreCompletions)
    \/ ModelCallRaises(1)
    \/ TurnEnds(1)
    \/ AnswerDirectStart(2, DirectLanguages)
    \/ DirectReturns(2, DirectCompletions)
    \/ DirectRaises(2)
    \/ TurnEnds(2)

SpecDirect == Init /\ [][NextDirect]_vars

\* two tasks, each running the turns of a conversation of its own
ChatFor(t) == IF t = 1 THEN "c1" ELSE "c2"

NextIds ==
    \/ \E t \in Turns :
          HandleTurnStart(t, {ChatFor(t)}, StoreContexts, {""}, MaxStoreTurns)
    \/ \E t \in Turns : ModelCallReturns(t, StoreCompletions)
    \/ \E t \in Turns : ModelCallRaises(t)
    \/ \E t \in Turns : TurnEnds(t)
    \/ Tick(HISTORY_TTL + 1)

SpecIds == InitStore /\ [][NextIds]_vars

\* one turn in which every model call and every tool call returns, the
\* model free to answer each round trip with tool calls again
RoundCompletions ==
    { [choices |-> 1, content |-> c, tool_calls |-> <<>>] : c \in {"", " Answer. "} }
    \cup { [choices |-> 1, content |-> "", tool_calls |-> <<call>>] :
             call \in { Call("call_1", "get_client_accounts_info", ArgsClient, "ok"),
                        Call("call_1", "get_bank_info", ArgsTopic, "na"),
                        Call("call_1", "get_balance", ArgsNone, "na"),
                        Call("call_1", "get_client_accounts_info", ArgsEmpty, "error") } }

NextRounds ==
    \/ HandleTurnStart(1, {"c1"}, StoreContexts, {"m1"}, 1)
    \/ ModelCallReturnsDeep(1, RoundCompletions)
    \/ TurnEnds(1)

SpecRounds ==
    /\ Init
    /\ [][NextRounds]_vars
    /\ WF_vars(ModelCallReturnsDeep(1, RoundCompletions))

\* one turn, the completions of Spec and those with a tool whose output is
\* empty: the accounts request answered by an empty JSON string
BlankCall == Call("?", "get_client_accounts_info", ArgsClient, "blank")

BlankLists ==
    { <<BlankCall>> }
    \cup { <<BlankCall, c>> : c \in CallChoices }
    \cup { <<c, BlankCall>> : c \in CallChoices }

ReplyCompletions ==
    Completions
    \cup { [choices |-> 1, content |-> "", tool_calls |-> Numbered(calls)] :
             calls \in BlankLists }

NextReply ==
    \/ HandleTurnStart(1, {"c1"}, Contexts, {"m1"}, 1)
    \/ ModelCallReturns(1, ReplyCompletions)
    \/ ModelCallRaises(1)
    \/ TurnEnds(1)

SpecReply == Init /\ [][NextReply]_vars

\* append_history on every history of at most MaxHistory entries, the
\* entries numbered so that each one is told from the others
NumberedHistory(n) ==
    [i \in 1..n |-> [role |-> IF i % 2 = 1 THEN "user" ELSE "assistant",
                     content |-> "m" \o ToString(i)]]

HistoryContents == {"", "hello", "Answer."}

AppendHistoryCall(t) ==
    /\ pc[t] = "held"
    /\ obs[t].op = "none"
    /\ \E role \in {"user", "assistant"}, content \in HistoryContents :
          /\ state' = [state EXCEPT ![t] =
                AppendHistory(state[t], role, content, MaxHistoryMessages, now)]
          /\ obs' = [obs EXCEPT ![t] =
                [before |-> NoState, op |-> "append_history", prev |-> state[t],
                 role |-> role, content |-> content]]
    /\ UNCHANGED <<pc, payload, frames, messages, reply, nturns, storeVars,
                   clientVars, mergeVars, toolVars, lockVars>>

InitHistory ==
    /\ pc = [t \in Turns |-> IF t = 1 THEN "held" ELSE "idle"]
    /\ payload = [t \in Turns |-> NoPayload]
    /\ \E n \in 0..MaxHistory :
          state = [t \in Turns |->
                     IF t = 1 THEN [NewState("c1", 0) EXCEPT !.history = NumberedHistory(n)]
                     ELSE NoState]
    /\ frames = [t \in Turns |-> <<>>]
    /\ messages = [t \in Turns |-> <<>>]
    /\ reply = [t \in Turns |-> NoReply]
    /\ obs = [t \in Turns |-> IF t = 1 THEN [before |-> NoState, op |-> "none"] ELSE NoObs]
    /\ conv = [c \in ChatIds |-> NoConv]
    /\ nturns = 0
    /\ now \in 0..1
    /\ states = [c \in ChatIds |-> NoState]
    /\ cfg = ClientConfig(2, 1, 8)
    /\ IdleClient
    /\ IdleMerge
    /\ IdleTool
    /\ IdleLock

NextHistory == AppendHistoryCall(1)

SpecHistory == InitHistory /\ [][NextHistory]_vars

\* two tasks running handle_turn on one conversation, lock step by lock step
NextLock ==
    \/ \E t \in Turns : LockedTurnStart(t, {"c1"}, StoreContexts, MaxLockTurns)
    \/ \E t \in Turns : LockAcquired(t)
    \/ \E t \in Turns : LoadSection(t)
    \/ \E t \in Turns : LockedModelRetries(t)
    \/ \E t \in Turns : LockedSleepEnds(t)
    \/ \E t \in Turns : LockedModelReturns(t, StoreCompletions)
    \/ \E t \in Turns : LockedToolsReturn(t)
    \/ \E t \in Turns : LockedModelRaises(t)
    \/ \E t \in Turns : PersistSection(t)
    \/ \E t \in Turns : TurnEnds(t)

SpecLock == InitStore /\ [][NextLock]_vars

\* execute_tool on every name, raw arguments and bank answer, and the
\* dispatch loop on that call alone, before and after another call
ToolNames == TOOL_REGISTRY \cup {"get_weather", "lookup_total_balance"}

AllArguments ==
    {ArgsNone, ArgsEmpty, ArgsClient, ArgsTopic, ArgsStatement, ArgsList, ArgsBroken}

AllCalls ==
    { Call("call_1", name, arguments, ext) :
        name \in ToolNames, arguments \in AllArguments, ext \in {"ok", "empty", "error"} }

OtherCalls ==
    { Call("call_2", "get_client_accounts_info", ArgsClient, "ok"),
      Call("call_2", "get_exchange", ArgsEmpty, "na"),
      Call("call_2", "get_weather", ArgsEmpty, "na") }

DispatchLists ==
    { <<c>> : c \in AllCalls }
    \cup { <<c, d>> : c \in AllCalls, d \in OtherCalls }
    \cup { <<d, c>> : c \in AllCalls, d \in OtherCalls }

ToolStates ==
    { [NewState("c1", 0) EXCEPT !.language = "en"],
      [NewState("c1", 0) EXCEPT !.language = "uk", !.slots = [client_id |-> Str("5")]] }

ToolCall ==
    /\ tool_out = NoTool
    /\ tool_out' =
          [done |-> TRUE,
           runs |-> [i \in 1..Len(tool_in.calls) |->
                       ExecuteTool(tool_in.calls[i].name, tool_in.calls[i].arguments,
                                   tool_in.calls[i].ext, tool_in.state,
                                   OrDefault(tool_in.state.language))],
           out  |-> HandleToolCalls(tool_in.calls, tool_in.state)]
    /\ UNCHANGED <<tool_in, storeVars, turnVars, clientVars, mergeVars, lockVars>>

InitTool ==
    /\ IdleTurns
    /\ states = [c \in ChatIds |-> NoState]
    /\ cfg = ClientConfig(2, 1, 8)
    /\ IdleClient
    /\ IdleMerge
    /\ IdleLock
    /\ tool_in \in [calls : DispatchLists, state : ToolStates]
    /\ tool_out = NoTool

NextTool == ToolCall

SpecTool == InitTool /\ [][NextTool]_vars

\* merge_context_updates on every list of at most MaxUpdates update maps
UpdateMaps ==
    { EmptyMap,
      [slots |-> Dict([a |-> Str("1")])],
      [slots |-> Dict([b |-> Str("2")])],
      [slots |-> Dict([a |-> Str("3")]), note |-> Str("m")],
      [language |-> Str("uk")],
      [language |-> Str("en")],
      [metadata |-> Dict([x |-> Str("1")]), note |-> Str("n")],
      [metadata |-> Dict([x |-> Str("2"), y |-> Str("3")])],
      [x |-> Str("9")],
      [slots |-> Str("none")] }

UpdateLists == UNION { [1..n -> UpdateMaps] : n \in 0..MaxUpdates }

\* the working state of a dispatch: each update map applied as it comes
RECURSIVE ApplyEach(_, _)
ApplyEach(st, updates_list) ==
    IF updates_list = <<>> THEN st
    ELSE ApplyEach(ApplyUpdates(st, Head(updates_list)), Tail(updates_list))

\* the state the dispatch starts with
MergeBase ==
    [NewState("c1", 0) EXCEPT !.language = "uk",
                              !.slots = [a |-> Str("0")],
                              !.metadata = [timezone |-> Str("UTC")]]

\* merge_context_updates on the list, beside the working state the updates
\* give one by one and what the end of the turn makes of it with the merged
\* map (nothing when the merge raised)
MergeCall ==
    /\ merge_out = NoMerge
    /\ LET merge   == MergeContextUpdates(merge_in)
           working == ApplyEach(MergeBase, merge_in)
       IN  merge_out' =
             [done |-> TRUE, working |-> working,
              final |-> IF merge.raised \/ DOMAIN merge.merged = {} THEN working
                        ELSE ApplyUpdates(working, merge.merged)] @@ merge
    /\ UNCHANGED <<merge_in, storeVars, turnVars, clientVars, toolVars, lockVars>>

InitMerge ==
    /\ IdleTurns
    /\ states = [c \in ChatIds |-> NoState]
    /\ cfg = ClientConfig(2, 1, 8)
    /\ IdleClient
    /\ merge_in \in UpdateLists
    /\ merge_out = NoMerge
    /\ IdleTool
    /\ IdleLock

NextMerge == MergeCall

SpecMerge == InitMerge /\ [][NextMerge]_vars

\* one client, any retry configuration, generate called again and again
InitClient ==
    /\ IdleTurns
    /\ states = [c \in ChatIds |-> NoState]
    /\ cfg \in ClientConfigs
    /\ IdleClient
    /\ IdleMerge
    /\ IdleTool
    /\ IdleLock

NextClient ==
    \/ GenerateStart
    \/ AttemptCompletes
    \/ SleepCompletes
    \/ SleepCancelled

SpecClient == InitClient /\ [][NextClient]_vars

-----------------------------------------------------------------------------
(* Properties of generate, under SpecClient *)

\* C1: when generate raises the failure of the model call, every attempt has
\* failed and none is left: with max_retries = N it has made N + 1 calls and
\* slept N times, and the retry counter stands at N.
C1_RaisesAfterAllRetries ==
    gpc = "raised" =>
        /\ glog.calls = cfg.max_retries + 1
        /\ Len(glog.sleeps) = cfg.max_retries
        /\ attempt = cfg.max_retries

C1_Witness ==
    /\ gpc = "raised"
    /\ cfg.max_retries = 2
    /\ glog.calls = 3
    /\ Len(glog.sleeps) = 2

\* C6: a call attempt that is cancelled ends generate with the cancellation
\* at once: no further call, no sleep, the retry counter not incremented,
\* whatever the number of retries left.
C6_CancelAbortsAtOnce ==
    [][ (gpc = "calling" /\ glog'.last = "cancel") =>
            /\ gpc' = "cancelled"
            /\ attempt' = attempt
            /\ glog'.calls = glog.calls
            /\ glog'.sleeps = glog.sleeps ]_vars

C6_Witness ==
    /\ gpc = "cancelled"
    /\ glog.last = "cancel"
    /\ cfg.max_retries = 3
    /\ attempt = 1
    /\ glog.calls = 2
    /\ Len(glog.sleeps) = 1

-----------------------------------------------------------------------------
(* Properties of one turn, under Spec *)

\* the conversation of turn t
ChatOf(t) == payload[t].chat_id

\* entry e is in history h
InHistory(e, h) == \E i \in DOMAIN h : h[i] = e

\* C2: when a dispatched tool of the turn returned an event other than
\* "send", the reply carries the event and data of the first such tool and
\* no model call follows the dispatch.
C2_FirstFunctionResultIsReply ==
    \A t \in Turns :
        (pc[t] = "done" /\ FirstFunctionResult(obs[t].results) # NoResult) =>
            /\ reply[t].event = FirstFunctionResult(obs[t].results).event
            /\ reply[t].data = FirstFunctionResult(obs[t].results).data
            /\ obs[t].llm_calls = obs[t].dispatch_calls

\* C3: a turn whose completion asks for a tool that is not registered replies
\* "send" with the tool-unavailable text, and the history persisted ends with
\* the user message of the turn, no assistant message after it.
C3_UnknownToolNoAssistantMessage ==
    \A t \in Turns :
        (pc[t] = "done" /\ obs[t].branch = "unknown_tool") =>
            /\ reply[t].event = "send"
            /\ reply[t].data \in {UnavailableEn, UnavailableUk}
            /\ obs[t].persists = 1
            /\ states[ChatOf(t)].history[Len(states[ChatOf(t)].history)] = obs[t].user

\* the branches of handle_turn that end in a fallback or tool-unavailable reply
FailureBranches ==
    {"llm_error", "empty", "tool_error", "unknown_tool", "no_tool", "merge_error"}

\* C4: a turn that ended in a failure branch has called persist once, and
\* the history persisted for the conversation holds the user message of the
\* turn.
C4_FailureStillPersists ==
    \A t \in Turns :
        (pc[t] = "done" /\ obs[t].branch \in FailureBranches) =>
            /\ obs[t].persists = 1
            /\ InHistory(obs[t].user, states[ChatOf(t)].history)

C4_Witness ==
    /\ pc[1] = "done"
    /\ obs[1].branch = "tool_error"
    /\ obs[1].before = SeedState
    /\ obs[1].persists = 1
    /\ InHistory(obs[1].user, states["c1"].history)

\* C5 as stated: after a cancellation during the model call the store holds
\* for the conversation exactly what it held before the turn started.
C5_StoreAsBeforeTheTurn ==
    \A t \in Turns :
        (obs[t] # NoObs /\ obs[t].exc = "CancelledError") =>
            /\ obs[t].persists = 0
            /\ states[ChatOf(t)] = obs[t].before

\* C5: a turn cancelled while it awaits a model call ends without a persist,
\* and the store holds for the conversation the state the turn's load left
\* there: what the tools changed in the turn's snapshot is not stored.
C5_CancelledTurnPersistsNothing ==
    \A t \in Turns :
        (obs[t] # NoObs /\ obs[t].exc = "CancelledError") =>
            /\ pc[t] = "cancelled"
            /\ obs[t].persists = 0
            /\ states[ChatOf(t)] = obs[t].loaded

C5_Witness ==
    /\ pc[1] = "cancelled"
    /\ obs[1].exc = "CancelledError"
    /\ Len(frames[1]) = 1
    /\ state[1].slots # states["c1"].slots
    /\ states["c1"] = obs[1].loaded
    /\ states["c1"] # obs[1].before

\* C10: the history of every stored snapshot and of every snapshot a turn
\* holds has at most 20 entries.
C10_HistoryCapped ==
    /\ \A c \in ChatIds :
          states[c] # NoState => Len(states[c].history) <= MaxHistoryMessages
    /\ \A t \in Turns :
          state[t] # NoState => Len(state[t].history) <= MaxHistoryMessages

C10_Witness ==
    /\ pc[1] = "done"
    /\ obs[1].before = SeedState
    /\ Len(states["c1"].history) = MaxHistoryMessages
    /\ states["c1"].history[MaxHistoryMessages].role = "assistant"
    /\ states["c1"].history[1] # SeedHistory[1]

-----------------------------------------------------------------------------
(* Properties of the store under concurrent turns, under SpecStore *)

\* C7 as stated: whenever two successive loads of a conversation fall within
\* the TTL, the later one returns a history at least as long as the earlier.
C7_LoadsNeverShrink ==
    \A c \in ChatIds : conv[c].within => conv[c].prev <= conv[c].cur

\* C7: whenever two successive loads of a conversation fall within the TTL
\* and no other turn of the conversation was in flight at either of them, the
\* later one returns a history at least as long as the earlier.
C7_SerialLoadsNeverShrink ==
    \A c \in ChatIds :
        (conv[c].within /\ conv[c].serial) => conv[c].prev <= conv[c].cur

C7_Witness ==
    /\ conv["c1"].within
    /\ conv["c1"].serial
    /\ conv["c1"].prev = 2
    /\ conv["c1"].cur = 4

\* C8: persist replaces the stored snapshot wholesale: once a turn has
\* persisted and nothing has written the conversation since, the store holds
\* exactly the snapshot of that turn, whatever a turn that interleaved with it
\* persisted before.
C8_LastPersistWins ==
    \A t \in Turns :
        (pc[t] = "done" /\ conv[ChatOf(t)].writer = t) =>
            states[ChatOf(t)] = state[t]

C8_Witness ==
    \E t, u \in Turns :
        /\ t # u
        /\ pc[t] = "done" /\ pc[u] = "done"
        /\ ChatOf(t) = ChatOf(u)
        /\ obs[u].overlap
        /\ conv[ChatOf(u)].writer = u
        /\ states[ChatOf(u)] = state[u]
        /\ Len(state[t].history) > Len(states[ChatOf(u)].history)

-----------------------------------------------------------------------------
(* Properties of expiry, under SpecExpiry *)

\* the metadata merge_inbound_context leaves in a fresh state
InboundMetadata(context) ==
    IF context.timezone # "" THEN [timezone |-> Str(context.timezone)] ELSE EmptyMap

\* C9 as stated: a load that finds a snapshot older than the TTL returns a
\* state with the same id and empty slots, metadata and history.
C9_RecreatedStateIsEmpty ==
    \A t \in Turns :
        (obs[t] # NoObs /\ obs[t].stale) =>
            /\ obs[t].loaded.chat_id = obs[t].before.chat_id
            /\ obs[t].loaded.slots = EmptyMap
            /\ obs[t].loaded.metadata = EmptyMap
            /\ obs[t].loaded.history = <<>>

\* C9: a load that finds a snapshot older than the TTL returns a state with
\* the same id and an empty history, holding of slots, metadata and language
\* only what the inbound context of the load supplies.
C9_RecreatedStateHoldsInboundOnly ==
    \A t \in Turns :
        (obs[t] # NoObs /\ obs[t].stale) =>
            /\ obs[t].loaded.chat_id = obs[t].before.chat_id
            /\ obs[t].loaded.history = <<>>
            /\ obs[t].loaded.slots = payload[t].context.slots
            /\ obs[t].loaded.metadata = InboundMetadata(payload[t].context)
            /\ obs[t].loaded.language = payload[t].context.language

C9_Witness ==
    /\ pc[1] = "llm"
    /\ obs[1].stale
    /\ obs[1].before.history # <<>>
    /\ obs[1].before.slots # EmptyMap
    /\ payload[1].context.slots = EmptyMap
    /\ obs[1].loaded.slots = EmptyMap
    /\ obs[1].loaded.history = <<>>

-----------------------------------------------------------------------------
(* The state's update operations and the store's copies, under SpecCaller *)

\* the last operation was a load that found a snapshot still within its time
\* to live
LoadedLive(t) ==
    /\ pc[t] = "held"
    /\ obs[t].op = "load"
    /\ obs[t].before # NoState
    /\ ~obs[t].stale

\* C11 as the specification states it: a language that is set is kept by
\* every operation short of an expiry, a load, an apply_updates with any
\* update map, a persist.  apply_updates overwrites it.
C11_LanguageKeepsFirstValue ==
    (/\ pc[1] = "held"
     /\ obs[1].prev # NoState
     /\ ~(obs[1].op = "load" /\ obs[1].stale)
     /\ obs[1].prev.language # "")
    => state[1].language = obs[1].prev.language

\* C12 as the specification states it: whatever the age of the stored
\* snapshot, a load leaves a stored language that is set as it is.
C12_LoadKeepsStoredLanguage ==
    (/\ pc[1] = "held"
     /\ obs[1].op = "load"
     /\ obs[1].before # NoState
     /\ obs[1].before.language # "")
    => /\ state[1].language = obs[1].before.language
       /\ states[payload[1].chat_id].language = obs[1].before.language

\* C12, amended: a load that finds a snapshot not older than the time to live
\* leaves its language, when set, unchanged in the store and in the snapshot
\* returned, whether the inbound language is empty, the same or another one.
C12_LiveLoadKeepsStoredLanguage ==
    (LoadedLive(1) /\ obs[1].before.language # "")
    => /\ state[1].language = obs[1].before.language
       /\ states[payload[1].chat_id].language = obs[1].before.language

C12_Witness ==
    /\ LoadedLive(1)
    /\ obs[1].before.language = "uk"
    /\ payload[1].context.language = "en"
    /\ state[1].language = "uk"

\* C13 as the specification states it: a load fills in only what the stored
\* state lacks, so every stored slot and a stored timezone keep their value.
\* The inbound slots overwrite the stored ones.
C13_LoadFillsOnlyEmpty ==
    LoadedLive(1)
    => /\ \A k \in DOMAIN obs[1].before.slots :
             state[1].slots[k] = obs[1].before.slots[k]
       /\ "timezone" \in DOMAIN obs[1].before.metadata
             => state[1].metadata["timezone"] = obs[1].before.metadata["timezone"]

\* C14: neither the merge of the inbound context on a load nor apply_updates
\* removes a key of slots or of metadata.
C14_KeysNeverRemoved ==
    /\ LoadedLive(1)
       => /\ DOMAIN obs[1].before.slots \subseteq DOMAIN state[1].slots
          /\ DOMAIN obs[1].before.metadata \subseteq DOMAIN state[1].metadata
    /\ (pc[1] = "held" /\ obs[1].op = "apply_updates")
       => /\ DOMAIN obs[1].prev.slots \subseteq DOMAIN state[1].slots
          /\ DOMAIN obs[1].prev.metadata \subseteq DOMAIN state[1].metadata

C14_Witness ==
    /\ pc[1] = "held"
    /\ obs[1].op = "apply_updates"
    /\ obs[1].arg = [slots |-> Dict([accounts |-> Str("[]")])]
    /\ "client_id" \in DOMAIN obs[1].prev.slots
    /\ DOMAIN state[1].slots = {"accounts", "client_id"}

\* C15: a change made to a snapshot the store returned, or to one already
\* handed to persist, leaves the stored state as it was; the stored state
\* takes the caller's changes when the caller persists.
C15_StoreKeepsItsOwnObject ==
    /\ (pc[1] = "held" /\ obs[1].op \in {"apply_updates", "append_history"})
       => states[payload[1].chat_id] = obs[1].stored
    /\ (pc[1] = "held" /\ obs[1].op = "persist")
       => /\ states[payload[1].chat_id] = state[1]
          /\ state[1] = Touch(obs[1].prev, state[1].last_updated)

C15_Witness ==
    /\ pc[1] = "held"
    /\ obs[1].op = "apply_updates"
    /\ obs[1].via = "persist"
    /\ state[1].slots # obs[1].prev.slots
    /\ states[payload[1].chat_id] = obs[1].stored
    /\ states[payload[1].chat_id].slots # state[1].slots
-----------------------------------------------------------------------------
(* merge_context_updates, under SpecMerge *)

ReservedKeys == {"slots", "metadata"}

\* the updates of the list that carry the key
Holders(list, key) == { i \in 1..Len(list) : key \in DOMAIN list[i] }

\* the last update of the list that carries the key
LastHolder(list, key) ==
    CHOOSE i \in Holders(list, key) : \A j \in Holders(list, key) : j <= i

\* the updates whose value under a reserved key carries the inner key
InnerHolders(list, key, inner) ==
    { i \in Holders(list, key) : inner \in DOMAIN list[i][key].val }

InnerKeys(list, key) ==
    UNION { DOMAIN list[i][key].val : i \in Holders(list, key) }

AllMaps(list) ==
    \A key \in ReservedKeys : \A i \in Holders(list, key) : IsDict(list[i][key])

\* C16: when the slots and metadata values of all updates are maps, the
\* merged slots (metadata) hold the union of the inner keys, each with the
\* value of the last update that has it; [{slots:{a:1}}, {slots:{b:2}}]
\* gives {slots:{a:1,b:2}}.
C16_DeepMergeOfSlotsAndMetadata ==
    (merge_out.done /\ AllMaps(merge_in))
    => /\ ~merge_out.raised
       /\ \A key \in ReservedKeys :
             IF Holders(merge_in, key) = {}
             THEN key \notin DOMAIN merge_out.merged
             ELSE /\ key \in DOMAIN merge_out.merged
                  /\ IsDict(merge_out.merged[key])
                  /\ DOMAIN merge_out.merged[key].val = InnerKeys(merge_in, key)
                  /\ \A inner \in InnerKeys(merge_in, key) :
                        \E i \in InnerHolders(merge_in, key, inner) :
                           /\ \A j \in InnerHolders(merge_in, key, inner) : j <= i
                           /\ merge_out.merged[key].val[inner] = merge_in[i][key].val[inner]
       /\ merge_in = <<[slots |-> Dict([a |-> Str("1")])], [slots |-> Dict([b |-> Str("2")])]>>
             => merge_out.merged = [slots |-> Dict([a |-> Str("1"), b |-> Str("2")])]

C16_Witness ==
    /\ merge_out.done
    /\ merge_in = <<[slots |-> Dict([a |-> Str("1")])],
                    [slots |-> Dict([b |-> Str("2")])],
                    [slots |-> Dict([a |-> Str("3")]), note |-> Str("m")]>>
    /\ merge_out.merged["slots"] = Dict([a |-> Str("3"), b |-> Str("2")])

\* C17: in the map merge_context_updates returns, every key other than slots
\* and metadata has the value of the last update that carries it, and only
\* such keys are there.
C17_LaterUpdateWins ==
    (merge_out.done /\ ~merge_out.raised)
    => /\ DOMAIN merge_out.merged \ ReservedKeys
             = UNION { DOMAIN merge_in[i] : i \in 1..Len(merge_in) } \ ReservedKeys
       /\ \A key \in DOMAIN merge_out.merged \ ReservedKeys :
             merge_out.merged[key] = merge_in[LastHolder(merge_in, key)][key]
       /\ merge_in = <<[language |-> Str("uk")], [language |-> Str("en")]>>
             => merge_out.merged = [language |-> Str("en")]

C17_Witness ==
    /\ merge_out.done
    /\ Len(merge_in) = 3
    /\ merge_in[1] = [language |-> Str("uk")]
    /\ merge_in[2] = [slots |-> Dict([a |-> Str("3")]), note |-> Str("m")]
    /\ merge_in[3] = [language |-> Str("en")]
    /\ merge_out.merged =
          [language |-> Str("en"), note |-> Str("m"), slots |-> Dict([a |-> Str("3")])]
-----------------------------------------------------------------------------
(* The replies of a turn, under Spec *)

AllSend(results) == \A i \in 1..Len(results) : results[i].event = "send"

SomePostProcess(results) == \E i \in 1..Len(results) : results[i].post_process

\* the model call pending is one made with tool outputs
SecondInvocation(t) == pc[t] = "llm" /\ frames[t] # <<>>

\* C18: after a dispatch whose tools all returned "send", one at least marked
\* for post-processing, the model is called again; the messages of that call
\* end with one assistant message carrying the tool calls and then one tool
\* message per post-processed call, in call order, each with the id of the
\* matching entry of the assistant message.  No turn ends on such a dispatch.
C18_ToolOutputsSentBack ==
    /\ SecondInvocation(1) =>
          LET calls   == obs[1].completion.tool_calls
              results == obs[1].results
              post    == PostProcessed(results)
              n       == Len(post)
              msgs    == ModelCallMessages(1)
              last    == Len(msgs)
          IN  /\ obs[1].completed
              /\ Len(results) = Len(calls)
              /\ AllSend(results)
              /\ n >= 1
              /\ obs[1].llm_calls = obs[1].dispatch_calls + 1
              /\ last > n
              /\ msgs[last - n].role = "assistant"
              /\ Len(msgs[last - n].tool_calls) = n
              /\ \A k \in 1..(last - n - 1) : msgs[k].role \notin {"tool"}
              /\ \A k \in 1..n :
                    /\ msgs[last - n + k].role = "tool"
                    /\ msgs[last - n + k].tool_call_id = msgs[last - n].tool_calls[k].id
                    /\ msgs[last - n + k].content = results[post[k]].data
                    /\ msgs[last - n].tool_calls[k].id =
                          (IF calls[post[k]].id # "" THEN calls[post[k]].id
                           ELSE "tool_call_" \o ToString(post[k] - 1))
                    /\ msgs[last - n].tool_calls[k].function.name = calls[post[k]].name
    /\ (/\ pc[1] = "done"
        /\ obs[1].completed
        /\ obs[1].dispatch_calls = obs[1].llm_calls)
       => ~(AllSend(obs[1].results) /\ SomePostProcess(obs[1].results))

C18_Witness ==
    /\ SecondInvocation(1)
    /\ Len(obs[1].results) = 2
    /\ Len(messages[1]) = 3
    /\ messages[1][2].tool_call_id = "call_1"
    /\ messages[1][3].tool_call_id = "call_2"

\* the fallback text of the session's language
FallbackText(language) == IF language = "en" THEN FallbackEn ELSE FallbackUk

\* C19: a completion without tool calls gives the reply "send" with its text
\* stripped; without a choice, or with a text that is empty once stripped, the
\* reply is the generic fallback, which carries no note of an error.
C19_TextReplyOrFallback ==
    (/\ pc[1] = "done"
     /\ obs[1].exc = ""
     /\ obs[1].completion # NoCompletion
     /\ obs[1].completion.tool_calls = <<>>)
    => LET completion == obs[1].completion
           normalized == CASE completion.content = " Answer. " -> "Answer."
                           [] completion.content = "  "        -> ""
                           [] OTHER -> completion.content
       IN  /\ reply[1].event = "send"
           /\ IF completion.choices = 0 \/ normalized = ""
              THEN /\ reply[1].data = FallbackText(state[1].language)
                   /\ "metadata" \notin DOMAIN reply[1].context_updates
              ELSE reply[1].data = normalized
           /\ frames[1] = <<>> => reply[1].context_updates = EmptyMap

C19_Witness ==
    /\ pc[1] = "done"
    /\ frames[1] = <<>>
    /\ obs[1].completion.content = " Answer. "
    /\ reply[1] = AgentReply("send", "Answer.", EmptyMap)

\* an exception was raised in the turn after its load: by the model call, by
\* a tool, by the registry for a tool it does not know, by the merge of the
\* context updates
ExceptionRaised(t) ==
    /\ pc[t] \in {"done", "cancelled"}
    /\ \/ obs[t].exc # ""
       \/ obs[t].branch \in {"tool_error", "unknown_tool", "merge_error"}

\* the fallback reply was returned and the persisted state has the note
FallbackWithNote(t) ==
    /\ reply[t].event = "send"
    /\ reply[t].data = FallbackText(states[payload[t].chat_id].language)
    /\ "last_error" \in DOMAIN states[payload[t].chat_id].metadata

-----------------------------------------------------------------------------
(* The backoff of generate, under SpecClient *)

\* C30 as the specification states it: the sleep before retry k is
\* min(max_delay, base_delay * 2^(k-1)) times a jitter between 0.8 and 1.2,
\* for every configuration, max_delay = 0 included, so that the delay before
\* jitter never exceeds max_delay.  With max_delay = 0 the code applies no cap.
C30_SleepIsCappedBackoff ==
    \A k \in 1..Len(glog.sleeps) :
        LET delay == Min(cfg.max_delay, cfg.base_delay * Pow2(k - 1))
        IN  /\ glog.sleeps[k] >= delay * JitterLow
            /\ glog.sleeps[k] <= delay * JitterHigh
            /\ cfg.base_delay = 0 => glog.sleeps[k] = 0
-----------------------------------------------------------------------------
(* The store calls of a turn, under Spec *)

\* C21: a turn that is not cancelled loads once; while it waits for the model
\* it has persisted nothing and returned nothing; when its reply is there,
\* on the success and on the fallback path, it has persisted exactly once and
\* the store holds the state of the end of the turn.
C21_LoadOncePersistOnce ==
    (obs[1] # NoObs /\ obs[1].exc # "CancelledError")
    => /\ obs[1].loads = 1
       /\ pc[1] = "llm"
             => /\ obs[1].persists = 0
                /\ reply[1] = NoReply
                /\ states[payload[1].chat_id] = obs[1].loaded
       /\ pc[1] = "done"
             => /\ obs[1].persists = 1
                /\ reply[1] # NoReply
                /\ states[payload[1].chat_id] = state[1]

C21_Witness ==
    /\ pc[1] = "done"
    /\ obs[1].branch = "llm_error"
    /\ obs[1].loads = 1
    /\ obs[1].persists = 1
    /\ reply[1].data = FallbackUk
    /\ states["c1"] = state[1]
    /\ states["c1"] # obs[1].loaded
-----------------------------------------------------------------------------
(* answer_direct, under SpecDirect *)

\* a step of the task that runs answer_direct
DirectStep == pc'[2] # pc[2]

\* the result answer_direct returned is what the completion or the failure
\* of its one model call calls for
DirectResult ==
    pc[2] = "done"
    => LET completion == obs[2].completion
           fallback   == IF payload[2].language \in {"en", "en-US"}
                         THEN FallbackEn ELSE FallbackUk
       IN  /\ DOMAIN reply[2] = {"event", "data"}
           /\ reply[2].event = "send"
           /\ reply[2].data =
                 (IF obs[2].exc = "" /\ completion.content = " Answer. "
                  THEN "Answer." ELSE fallback)
           /\ obs[2].llm_calls = 1
           /\ state[2] = NoState

\* C22: no step of answer_direct changes the store, whether its model call
\* returns a text, returns nothing usable (no choice, an empty text, tool
\* calls only) or fails; no tool runs; and when it does not get a text the
\* result is the fallback text of the language asked for.
C22_AnswerDirectLeavesStore ==
    /\ [][DirectStep => states' = states]_vars
    /\ []DirectResult

C22_Witness ==
    /\ pc[2] = "done"
    /\ obs[2].exc = "APIConnectionError"
    /\ payload[2].language = "en-US"
    /\ reply[2] = [event |-> "send", data |-> FallbackEn]
    /\ pc[1] = "done"
    /\ states["c1"] = state[1]
-----------------------------------------------------------------------------
(* execute_tool and the dispatch loop, under SpecTool *)

\* C23: for a name that is not registered execute_tool fails with the
\* unknown-tool error and runs no executor, whatever the raw arguments are,
\* unparsable ones included.
C23_UnknownToolWhateverArguments ==
    tool_out.done =>
        \A i \in 1..Len(tool_in.calls) :
            tool_in.calls[i].name \notin TOOL_REGISTRY
            => /\ tool_out.runs[i].status = "unknown"
               /\ ~tool_out.runs[i].ran

C23_Witness ==
    /\ tool_out.done
    /\ Len(tool_in.calls) = 1
    /\ tool_in.calls[1].name = "get_weather"
    /\ tool_in.calls[1].arguments = ArgsBroken
    /\ tool_out.runs[1].status = "unknown"

\* the raw arguments are no JSON text, or JSON that is no object
Unparsable(arguments) == arguments \in {ArgsBroken, ArgsList}

\* C24 as the specification states it: for a registered name, raw arguments
\* that are no JSON or no JSON object make execute_tool fail with the
\* invalid-arguments error, no executor run.  JSON that is no object fails
\* with another error.
C24_InvalidArgumentsError ==
    tool_out.done =>
        \A i \in 1..Len(tool_in.calls) :
            (tool_in.calls[i].name \in TOOL_REGISTRY /\ Unparsable(tool_in.calls[i].arguments))
            => /\ tool_out.runs[i].status = "raised"
               /\ tool_out.runs[i].error = "ValueError"
               /\ ~tool_out.runs[i].ran

\* C25: a result execute_tool returns with an event other than "send" is not
\* marked for post-processing, and when the dispatch loop hands tool outputs
\* back to the model every result of the dispatch is a "send" and each output
\* is the data of a "send" result marked for post-processing.
C25_TerminalResultsNotPostProcessed ==
    tool_out.done =>
        /\ \A i \in 1..Len(tool_in.calls) :
              (tool_out.runs[i].status = "ok" /\ tool_out.runs[i].result.event # "send")
              => ~tool_out.runs[i].result.post_process
        /\ tool_out.out.kind = "post"
              => /\ \A i \in 1..Len(tool_out.out.results) :
                       tool_out.out.results[i].event = "send"
                 /\ \A k \in 1..Len(tool_out.out.tool_outputs) :
                       \E i \in 1..Len(tool_out.out.results) :
                          /\ tool_out.out.results[i].post_process
                          /\ tool_out.out.results[i].data = tool_out.out.tool_outputs[k].content
        /\ (\E i \in 1..Len(tool_out.out.results) : tool_out.out.results[i].event # "send")
              => tool_out.out.kind # "post"

C25_Witness ==
    /\ tool_out.done
    /\ Len(tool_in.calls) = 2
    /\ tool_in.calls[1].name = "get_client_accounts_info"
    /\ tool_in.calls[2].name = "get_exchange"
    /\ tool_out.runs[1].status = "ok"
    /\ tool_out.runs[1].result.post_process
    /\ tool_out.runs[2].status = "ok"
    /\ tool_out.runs[2].result.event = "function"
    /\ tool_out.out.kind = "reply"
    /\ tool_out.out.reply.event = "function"
-----------------------------------------------------------------------------
(* The dispatch loop: failures, terminal results, order *)

\* the state after the context updates of the results were applied in order
RECURSIVE ApplyAll(_, _)
ApplyAll(st, results) ==
    IF results = <<>> THEN st
    ELSE ApplyAll(ApplyUpdates(st, Head(results).context_updates), Tail(results))

\* what execute_tool makes of the call: "ok", "raised" or "unknown"
CallStatus(call, st) ==
    ExecuteTool(call.name, call.arguments, call.ext, st, OrDefault(st.language)).status

\* the calls of the list that do not return a result
FailingCalls(calls, st) == { i \in 1..Len(calls) : CallStatus(calls[i], st) # "ok" }

\* the first call that does not return a result raises
FirstFailureRaises(calls, st) ==
    /\ FailingCalls(calls, st) # {}
    /\ \E f \in FailingCalls(calls, st) :
          /\ \A g \in FailingCalls(calls, st) : f <= g
          /\ CallStatus(calls[f], st) = "raised"

FirstFailure(calls, st) ==
    CHOOSE f \in FailingCalls(calls, st) : \A g \in FailingCalls(calls, st) : f <= g

\* the first round of the turn: its only model call so far
FirstRound(t) == obs[t].llm_calls = 1 /\ frames[t] = <<>>

\* C26: when a tool of the dispatch raises (invalid arguments included, the
\* unknown-tool error excluded), the reply is the generic fallback: its data
\* is the fallback text and it carries the note of the error and nothing of
\* the tools that ran; the calls after the failing one are not dispatched,
\* and no model call is made with tool outputs.
C26_ToolFailureGivesFallback ==
    /\ (/\ pc[1] = "done"
        /\ obs[1].exc = ""
        /\ FirstFailureRaises(obs[1].completion.tool_calls, obs[1].loaded))
       => LET calls == obs[1].completion.tool_calls
              f     == FirstFailure(calls, obs[1].loaded)
          IN  /\ obs[1].branch = "tool_error"
              /\ reply[1].event = "send"
              /\ reply[1].data = FallbackText(state[1].language)
              /\ "last_error" \in DOMAIN states[payload[1].chat_id].metadata
              /\ FirstRound(1)
                    => /\ Len(obs[1].results) = f - 1
                       /\ DOMAIN reply[1].context_updates = {"metadata"}
                       /\ DOMAIN reply[1].context_updates["metadata"].val = {"last_error"}
                       /\ state[1].slots = ApplyAll(obs[1].loaded, obs[1].results).slots
    /\ SecondInvocation(1)
       => FailingCalls(obs[1].completion.tool_calls, obs[1].loaded) = {}

C26_Witness ==
    /\ pc[1] = "done"
    /\ FirstRound(1)
    /\ Len(obs[1].completion.tool_calls) = 2
    /\ obs[1].completion.tool_calls[1].name = "get_exchange"
    /\ obs[1].completion.tool_calls[2].name = "get_statement"
    /\ obs[1].branch = "tool_error"
    /\ Len(obs[1].results) = 1
    /\ reply[1].data \in {FallbackEn, FallbackUk}

\* the first result of the list whose event is not "send"
FirstTerminal(results) ==
    CHOOSE f \in 1..Len(results) :
        /\ results[f].event # "send"
        /\ \A g \in 1..(f - 1) : results[g].event = "send"

\* C28 as the specification states it: a result whose event is not "send"
\* ends the dispatch at once, so the terminal tool is the last one that ran,
\* and the reply and the persisted state hold the updates of the tools up to
\* it only.  The loop runs every call of the list before it looks for a
\* terminal result.
C28_TerminalResultEndsDispatch ==
    (/\ pc[1] = "done"
     /\ FirstRound(1)
     /\ obs[1].exc = ""
     /\ reply[1].event # "send")
    => LET results == obs[1].results
           f       == FirstTerminal(results)
           upto    == SubSeq(results, 1, f)
       IN  /\ Len(results) = f
           /\ reply[1].data = results[f].data
           /\ reply[1].context_updates =
                 MergeContextUpdates([i \in 1..f |-> upto[i].context_updates]).merged
           /\ state[1].slots = ApplyAll(obs[1].loaded, upto).slots

\* C29: the dispatch loop runs the calls in the order of the list, and the
\* k-th tool is given the state with the context updates of the results of
\* tools 1..k-1 applied, so that it sees what they stored.
C29_ToolsSeeEarlierUpdates ==
    tool_out.done =>
        LET calls   == tool_in.calls
            results == tool_out.out.results
        IN  /\ Len(results) <= Len(calls)
            /\ \A k \in 1..Len(results) :
                  LET given == ApplyAll(tool_in.state, SubSeq(results, 1, k - 1))
                      run   == ExecuteTool(calls[k].name, calls[k].arguments, calls[k].ext,
                                           given, OrDefault(tool_in.state.language))
                  IN  /\ run.status = "ok"
                      /\ results[k] = run.result
            /\ tool_out.out.state = ApplyAll(tool_in.state, results)

C29_Witness ==
    /\ tool_out.done
    /\ tool_in.state.slots = [client_id |-> Str("5")]
    /\ Len(tool_in.calls) = 2
    /\ tool_in.calls[1].name = "get_client_accounts_info"
    /\ tool_in.calls[2].name = "get_specific_balance"
    /\ tool_in.calls[2].arguments = ArgsEmpty
    /\ Len(tool_out.out.results) = 2
    /\ tool_out.out.results[2].data =
          "get_balance(customerid=7,mode=0,treatyid=None,IBAN=[],currencyTag=[])"
-----------------------------------------------------------------------------
(* The lock of the store, under SpecLock *)

InCriticalSection(t) == pc[t] \in CriticalSections

\* C27: at most one load or persist critical section is in progress at any
\* time, the lock is held by the task that is in it and by no other, and no
\* task holds it while its model call, its tool dispatch or its sleep before
\* a retry is in progress.
C27_LockIsExclusive ==
    /\ Cardinality({ t \in Turns : InCriticalSection(t) }) <= 1
    /\ \A t \in Turns : InCriticalSection(t) <=> lock = t
    /\ \A t \in Turns : pc[t] \in {"llm", "tool", "sleep"} => lock # t
    /\ lock \in Turns \cup {0}

C27_Witness ==
    /\ pc[1] = "persist_cs"
    /\ pc[2] = "load_wait"
    /\ lock = 1
-----------------------------------------------------------------------------
(* append_history, under SpecHistory *)

Appended(t) == pc[t] = "held" /\ obs[t].op = "append_history"

\* the last n entries of h, in their order
Latest(h, n) ==
    LET k == IF Len(h) < n THEN Len(h) ELSE n
    IN  [i \in 1..k |-> h[Len(h) - k + i]]

\* C31 as the specification states it: append_history with a content that
\* is not empty leaves the last 20 entries of the history followed by the
\* new entry.
C31_AppendKeepsLastTwenty ==
    (Appended(1) /\ obs[1].content # "")
    => state[1].history =
         Latest(obs[1].prev.history, MaxHistoryMessages)
           \o <<[role |-> obs[1].role, content |-> obs[1].content]>>

\* C31, amended: append_history with a content that is not empty leaves the
\* last 19 entries of the history (the cap less one) followed by the new
\* entry, in their order, so that the history never has more than 20
\* entries; with an empty content the state is unchanged.
C31_AppendKeepsLastNineteen ==
    Appended(1)
    => IF obs[1].content = ""
       THEN state[1] = obs[1].prev
       ELSE /\ state[1].history =
                 Latest(obs[1].prev.history, MaxHistoryMessages - 1)
                   \o <<[role |-> obs[1].role, content |-> obs[1].content]>>
            /\ Len(state[1].history) <= MaxHistoryMessages
            /\ state[1].last_updated = now

C31_Witness ==
    /\ Appended(1)
    /\ Len(obs[1].prev.history) = MaxHistoryMessages
    /\ Len(state[1].history) = MaxHistoryMessages
    /\ state[1].history[1] = obs[1].prev.history[2]
    /\ state[1].history[MaxHistoryMessages] = [role |-> "assistant", content |-> "hello"]
-----------------------------------------------------------------------------
(* The history at the end of a turn, under Spec *)

\* the history once the user message of the turn was appended to the one loaded
HistoryAfterUser(t) ==
    Latest(Append(obs[t].loaded.history, obs[t].user), MaxHistoryMessages)

\* C32: the history persisted at the end of a turn is the history loaded,
\* then the user message, then an assistant entry with the reply's data if
\* and only if the reply's event is "send" and its data is not empty; a
\* reply with another event leaves the user message as the last entry.
C32_AssistantEntryOnlyForText ==
    pc[1] = "done"
    => LET stored == states[payload[1].chat_id].history
       IN  /\ stored = state[1].history
           /\ IF reply[1].event = "send" /\ reply[1].data # ""
              THEN stored = Latest(Append(HistoryAfterUser(1),
                                          [role |-> "assistant", content |-> reply[1].data]),
                                   MaxHistoryMessages)
              ELSE /\ stored = HistoryAfterUser(1)
                   /\ stored[Len(stored)] = obs[1].user

C32_Witness ==
    /\ pc[1] = "done"
    /\ reply[1].event = "function"
    /\ reply[1].data = "get_balance"
    /\ Len(states["c1"].history) > 1
    /\ states["c1"].history[Len(states["c1"].history)] = obs[1].user
-----------------------------------------------------------------------------
(* The reply of a dispatch whose tools all returned "send", under Spec *)

\* the texts joined by a blank line, from the left
RECURSIVE BlankLineJoin(_)
BlankLineJoin(texts) ==
    IF texts = <<>> THEN ""
    ELSE IF Len(texts) = 1 THEN texts[1]
    ELSE BlankLineJoin(SubSeq(texts, 1, Len(texts) - 1)) \o "\n\n" \o texts[Len(texts)]

\* the data of the results that are not empty, in call order
NonEmptyData(results) ==
    LET data == [i \in 1..Len(results) |-> results[i].data]
    IN  SelectSeq(data, LAMBDA text : text # "")

\* the tool messages of the model call pending
ToolMessages(t) == SelectSeq(messages[t], LAMBDA msg : msg.role = "tool")

-----------------------------------------------------------------------------
(* Turns of two conversations, under SpecIds *)

\* a step of task t
StepOf(t) == pc'[t] # pc[t] \/ state'[t] # state[t]

\* a step changes the snapshot of no conversation but that of the task taking it
OnlyOwnSnapshot ==
    \A c \in ChatIds :
        states'[c] # states[c] => \E t \in Turns : StepOf(t) /\ payload'[t].chat_id = c

\* the turn of t ran as if alone: what it loaded was written by no other
\* task, and the store holds the state it persisted
AsIfAlone(t) ==
    /\ pc[t] \in {"llm", "done", "cancelled"}
          => /\ conv[ChatOf(t)].quiet
             /\ conv[ChatOf(t)].writer = t
             /\ obs[t].before = NoState \/ obs[t].before.chat_id = ChatOf(t)
    /\ pc[t] = "llm" => states[ChatOf(t)] = obs[t].loaded
    /\ pc[t] = "done" => states[ChatOf(t)] = state[t]

\* C34: load and persist of a conversation change the stored snapshot of no
\* other conversation, so that of two interleaved turns of different
\* conversations each finds in the store what its own conversation left
\* there and ends with the store holding the state it persisted.
C34_OtherIdsUntouched ==
    /\ [][OnlyOwnSnapshot]_vars
    /\ [](\A t \in Turns : AsIfAlone(t))

C34_Witness ==
    /\ pc[1] = "done"
    /\ pc[2] = "llm"
    /\ states["c1"] = state[1]
    /\ states["c2"] = obs[2].loaded
    /\ obs[2].before # NoState
    /\ obs[1].before # NoState
-----------------------------------------------------------------------------
(* Termination of a turn, under SpecRounds *)

\* C35 as the specification states it: a turn whose model calls and tool
\* calls all return comes to its end, the state persisted and the reply
\* returned, whatever the model answers.  A model that answers every call
\* made with tool outputs by a tool call marked for post-processing keeps
\* the turn calling it for ever.
C35_TurnReachesDone ==
    [](pc[1] = "llm" => <>(pc[1] = "done"))
-----------------------------------------------------------------------------
(* The merged map against the updates applied one by one, under SpecMerge *)

\* C36 as the specification states it: on the working state, to which every
\* update map of the list was applied in order, applying the merged map
\* changes neither the language nor the slots nor the metadata.
C36_MergedPatchChangesNothing ==
    (merge_out.done /\ ~merge_out.raised)
    => /\ merge_out.final.language = merge_out.working.language
       /\ merge_out.final.slots = merge_out.working.slots
       /\ merge_out.final.metadata = merge_out.working.metadata

\* C37 as the specification states it: merge_context_updates returns a
\* merged map for every list of update maps and raises no error.
C37_MergeNeverRaises ==
    merge_out.done => ~merge_out.raised
-----------------------------------------------------------------------------
(* The time to live as a window of inactivity, under SpecExpiry *)

\* the step is the load of the turn of t, or its persist
LoadStep(t)    == pc[t] = "idle" /\ pc'[t] = "llm"
PersistStep(t) == pc[t] = "llm" /\ pc'[t] = "done"

\* a load and a persist leave the time of the step in the stored snapshot,
\* and no other step writes a snapshot
TimestampRefreshed ==
    /\ \A t \in Turns :
          (LoadStep(t) \/ PersistStep(t))
            => states'[payload'[t].chat_id].last_updated = now
    /\ \A c \in ChatIds :
          states'[c] # states[c]
            => \E t \in Turns : /\ LoadStep(t) \/ PersistStep(t)
                                /\ payload'[t].chat_id = c

\* what the load of the turn in progress did with the snapshot it found,
\* by the age the snapshot had at the load
LoadedByAge(t) ==
    (pc[t] = "llm" /\ obs[t].before # NoState)
    => LET found  == obs[t].before
           loaded == obs[t].loaded
           age    == loaded.last_updated - found.last_updated
       IN  IF age > HISTORY_TTL
           THEN /\ loaded.history = <<>>
                /\ DOMAIN loaded.slots = DOMAIN payload[t].context.slots
           ELSE /\ loaded.history = found.history
                /\ DOMAIN found.slots \subseteq DOMAIN loaded.slots
                /\ DOMAIN found.metadata \subseteq DOMAIN loaded.metadata

\* C38: every load and every persist sets the stored timestamp to the time
\* it is made at, so the snapshot a load finds is recreated only when more
\* than the time to live has passed since the last load or persist of the
\* conversation; at an age equal to the time to live it is kept.
C38_SlidingTimeToLive ==
    /\ [][TimestampRefreshed]_vars
    /\ [](\A t \in Turns : LoadedByAge(t))

C38_Witness ==
    /\ pc[1] = "llm"
    /\ obs[1].before # NoState
    /\ conv["c1"].prev > 0
    /\ obs[1].before.last_updated = 1
    /\ obs[1].loaded.last_updated = 1 + HISTORY_TTL
    /\ obs[1].loaded.history = obs[1].before.history
    /\ obs[1].loaded.history # <<>>
-----------------------------------------------------------------------------
(* The data of a textual reply, under SpecReply *)

\* C39: every reply handle_turn returns with the event "send" has data that
\* is not empty, whatever the model answers and whatever the registered
\* tools return, a tool output that is empty included.
C39_TextReplyNeverEmpty ==
    (pc[1] = "done" /\ reply[1].event = "send") => reply[1].data # ""

C39_Witness ==
    /\ pc[1] = "done"
    /\ obs[1].llm_calls = 2
    /\ Len(obs[1].results) = 1
    /\ obs[1].results[1] =
          ToolResult("send", "",
                     [slots |-> Dict([accounts |-> Str(""), client_id |-> Str("7")])], TRUE)
    /\ obs[1].completion.content = ""
    /\ reply[1].event = "send"
    /\ reply[1].data \in {FallbackEn, FallbackUk}
-----------------------------------------------------------------------------
(* A dispatch that fails after tools of the turn succeeded, under Spec *)

\* the slot keys written by the context updates of the results
SlotKeys(results) ==
    UNION { DOMAIN results[i].context_updates.slots.val :
              i \in { j \in 1..Len(results) :
                        "slots" \in DOMAIN results[j].context_updates } }

\* the turn ended on a tool call that raised or named an unknown tool, after
\* tools of the turn returned results that carry slot updates
FailedAfterUpdates(t) ==
    /\ pc[t] = "done"
    /\ obs[t].exc = ""
    /\ obs[t].branch \in {"tool_error", "unknown_tool"}
    /\ SlotKeys(obs[t].results) # {}

\* the updates of the earlier tools are in the persisted state
EarlierUpdatesPersisted(t) ==
    /\ SlotKeys(obs[t].results) \subseteq DOMAIN states[payload[t].chat_id].slots
    /\ FirstRound(t) =>
          states[payload[t].chat_id].slots = ApplyAll(obs[t].loaded, obs[t].results).slots

\* C40 as stated: when a tool call fails or names an unknown tool after
\* earlier tool calls of the same turn succeeded, the context updates of the
\* earlier tools are in the persisted state and the reply's context updates
\* carry none of them.
C40_EarlierUpdatesOnlyInState ==
    FailedAfterUpdates(1) =>
        /\ EarlierUpdatesPersisted(1)
        /\ "slots" \notin DOMAIN reply[1].context_updates

\* C40, amended: the updates of the earlier tools are in the persisted state;
\* the reply carries none of the updates of the tools of the failing list,
\* and carries the updates of the tools of the earlier round trips of the
\* turn, which _complete_with_tool_outputs merges into the reply it returns.
C40_EarlierUpdatesOfTheListOnlyInState ==
    FailedAfterUpdates(1) =>
        /\ EarlierUpdatesPersisted(1)
        /\ FirstRound(1) => "slots" \notin DOMAIN reply[1].context_updates
        /\ ~FirstRound(1) =>
              LET carried == MergeContextUpdates(frames[1]).merged
              IN  /\ "slots" \in DOMAIN reply[1].context_updates
                     <=> "slots" \in DOMAIN carried
                  /\ "slots" \in DOMAIN carried
                     => reply[1].context_updates.slots = carried.slots

C40_Witness ==
    /\ FailedAfterUpdates(1)
    /\ FirstRound(1)
    /\ Len(obs[1].completion.tool_calls) = 2
    /\ obs[1].completion.tool_calls[1].name = "get_client_accounts_info"
    /\ obs[1].completion.tool_calls[2].name = "get_weather"
    /\ obs[1].branch = "unknown_tool"
    /\ "accounts" \in DOMAIN states[payload[1].chat_id].slots
    /\ reply[1].context_updates = EmptyMap
====
